---- MODULE Spec2Model ----
(***************************************************************************)
(* Verification model of the airregi-ai-predict ML API.                    *)
(*                                                                         *)
(* Six specifications share the variables:                                 *)
(*   Spec       the FastAPI application (src/ml_api/main.py): prediction   *)
(*              requests, positioned at each await of predict_next_day,    *)
(*              POST /retrain, the process-wide model_cache and the clock; *)
(*   CacheSpec  the ModelCache class (src/ml_api/models/model_cache.py)    *)
(*              driven through its public methods;                         *)
(*   PredictorSpec  a LightGBMPredictor instance                           *)
(*              (src/ml_api/models/lightgbm_model.py) under train and      *)
(*              predict calls;                                             *)
(*   FeatureSpec  the feature builders (src/ml_api/features/engineering.py)*)
(*              applied to bounded tables;                                 *)
(*   WeatherSpec  get_weather_forecast (src/ml_api/services/weather.py)    *)
(*              with and without a configured service;                     *)
(*   MissPathSpec  train_and_predict (lightgbm_model.py) on histories that *)
(*              passed the row check, positioned at its await.             *)
(*                                                                         *)
(* Time is counted in hours (datetime values are hour counts), strings are *)
(* sequences of one-character strings, Python's None is the record None.   *)
(***************************************************************************)
EXTENDS Integers, Sequences, FiniteSets, TLC

VARIABLES
    cache,   \* ModelCache.cache: key -> [value, expires_at, created_at]
    now,     \* datetime.now(), in hours
    req,     \* per request slot: position in predict_next_day and its locals
    ret,     \* CacheSpec: the last method call and what it returned
    lastSet, \* CacheSpec, history: per key, the value of the most recent set
    stale,   \* Spec, history: requests in flight whose history was fetched
             \* before a later /retrain of their user
    args,    \* the arguments the function under study is called on
    predictor, \* PredictorSpec: the fields of a LightGBMPredictor instance
    trained  \* PredictorSpec, history: a train call on the instance returned

vars == <<cache, now, req, ret, lastSet, stale, args, predictor, trained>>

\* The variables of the feature and predictor specifications
mlVars == <<args, predictor, trained>>

----------------------------------------------------------------------------
\* Bounds of the model
MaxNow == 24
TickHours == 3

\* Program constants
DefaultTtlHours == 6
MinHistoryRows == 30
MinHorizonDays == 1
MaxHorizonDays == 14
HoursPerDay == 24

None == [tag |-> "None"]

\* The clock at start: two ticks before the first midnight
StartNow == HoursPerDay - 2 * TickHours

\* What a later datetime.now() of the same handler step may read after an
\* earlier one read t: the clock does not stand still between two reads
LaterReads(t) == {t2 \in {t, t + TickHours} : t2 <= MaxNow}

\* User ids; U1 is a string prefix of U12.
U1 == <<"u", "1">>
U12 == <<"u", "1", "2">>
Users == {U1, U12}

Reqs == {1, 2}

----------------------------------------------------------------------------
\* Strings and dates

Digit(n) == CASE n = 0 -> "0" [] n = 1 -> "1" [] n = 2 -> "2" [] n = 3 -> "3"
              [] n = 4 -> "4" [] n = 5 -> "5" [] n = 6 -> "6" [] n = 7 -> "7"
              [] n = 8 -> "8" [] n = 9 -> "9"

\* str(datetime.date()): a fixed-width rendering of the calendar day
\* (ISO YYYY-MM-DD in the code, two decimal digits of the day number here).
DateStr(day) == <<Digit((day \div 10) % 10), Digit(day % 10)>>

\* datetime.replace(hour=0, minute=0, second=0, microsecond=0)
Midnight(t) == (t \div HoursPerDay) * HoursPerDay

\* datetime.date()
DateOf(t) == t \div HoursPerDay

\* str.startswith
StartsWith(s, prefix) ==
    /\ Len(prefix) <= Len(s)
    /\ SubSeq(s, 1, Len(prefix)) = prefix

\* f"{request.user_id}_{prediction_date.date()}"
CacheKey(user_id, prediction_date) ==
    user_id \o <<"_">> \o DateStr(DateOf(prediction_date))

----------------------------------------------------------------------------
\* ModelCache

EmptyCache == [k \in {} |-> None]

Remove(c, keys) == [k \in (DOMAIN c) \ keys |-> c[k]]

\* Variant of CacheGet: the expiry test is <= instead of <
CacheGet_ExpiryInclusive(c, key, t) ==
    IF key \in DOMAIN c
    THEN IF t <= c[key].expires_at
         THEN [ret |-> c[key].value, cache |-> c]
         ELSE [ret |-> None, cache |-> Remove(c, {key})]
    ELSE [ret |-> None, cache |-> c]

\* Variant of CacheGet: an expired hit sweeps every expired entry
CacheGet_SweepsExpired(c, key, t) ==
    IF key \in DOMAIN c
    THEN IF t < c[key].expires_at
         THEN [ret |-> c[key].value, cache |-> c]
         ELSE [ret |-> None,
               cache |-> Remove(c, {k \in DOMAIN c : t >= c[k].expires_at})]
    ELSE [ret |-> None, cache |-> c]

\* ModelCache.get: the returned value and the cache after the call
CacheGet(c, key, t) ==
    IF key \in DOMAIN c
    THEN IF t < c[key].expires_at
         THEN [ret |-> c[key].value, cache |-> c]
         ELSE [ret |-> None, cache |-> Remove(c, {key})]
    ELSE [ret |-> None, cache |-> c]

\* Variant of CacheSet: an existing entry keeps its value (setdefault)
CacheSet_KeepsExisting(c, key, value, ttl_hours, t1, t2) ==
    [k \in (DOMAIN c) \cup {key} |->
        IF k = key /\ k \notin DOMAIN c
        THEN [value |-> value, expires_at |-> t1 + ttl_hours, created_at |-> t2]
        ELSE IF k = key
             THEN [c[k] EXCEPT !.expires_at = t1 + ttl_hours, !.created_at = t2]
             ELSE c[k]]

\* ModelCache.set. It reads the clock twice: t1 for expires_at (line 48),
\* then t2 for created_at (line 49), t1 <= t2.
CacheSet(c, key, value, ttl_hours, t1, t2) ==
    [k \in (DOMAIN c) \cup {key} |->
        IF k = key
        THEN [value |-> value, expires_at |-> t1 + ttl_hours, created_at |-> t2]
        ELSE c[k]]

\* Variant of ClearUserCache: only the keys equal to the argument go
ClearUserCache_ExactKey(c, user_id) ==
    LET keys_to_remove == {key \in DOMAIN c : key = user_id}
    IN  [ret |-> None,
         removed |-> Cardinality(keys_to_remove),
         cache |-> Remove(c, keys_to_remove)]

\* A Python int as a returned value
PyInt(n) == [tag |-> "int", v |-> n]

\* Variant of ClearUserCache: the count of removed entries is returned
ClearUserCache_ReturnsCount(c, user_id) ==
    LET keys_to_remove == {key \in DOMAIN c : StartsWith(key, user_id)}
    IN  [ret |-> PyInt(Cardinality(keys_to_remove)),
         removed |-> Cardinality(keys_to_remove),
         cache |-> Remove(c, keys_to_remove)]

\* ModelCache.clear_user_cache: it returns None; removed is the count it prints
ClearUserCache(c, user_id) ==
    LET keys_to_remove == {key \in DOMAIN c : StartsWith(key, user_id)}
    IN  [ret |-> None,
         removed |-> Cardinality(keys_to_remove),
         cache |-> Remove(c, keys_to_remove)]

\* ModelCache.clear_all
ClearAll(c) ==
    [ret |-> None, removed |-> Cardinality(DOMAIN c), cache |-> EmptyCache]

\* Variant of GetStats: an entry expiring at the present instant is active
GetStats_ExpiryInclusive(c, t) ==
    LET active_entries ==
            Cardinality({k \in DOMAIN c : t <= c[k].expires_at})
        expired_entries == Cardinality(DOMAIN c) - active_entries
    IN  [total_entries |-> Cardinality(DOMAIN c),
         active_entries |-> active_entries,
         expired_entries |-> expired_entries]

\* ModelCache.get_stats (cache_keys, the first ten keys, is left out)
GetStats(c, t) ==
    LET active_entries ==
            Cardinality({k \in DOMAIN c : t < c[k].expires_at})
        expired_entries == Cardinality(DOMAIN c) - active_entries
    IN  [total_entries |-> Cardinality(DOMAIN c),
         active_entries |-> active_entries,
         expired_entries |-> expired_entries]

\* Variant of CleanupExpired: an entry expiring at the sweep time stays
CleanupExpired_Strict(c, t) ==
    LET keys_to_remove == {key \in DOMAIN c : t > c[key].expires_at}
    IN  [ret |-> None,
         removed |-> Cardinality(keys_to_remove),
         cache |-> Remove(c, keys_to_remove)]

\* ModelCache.cleanup_expired
CleanupExpired(c, t) ==
    LET keys_to_remove == {key \in DOMAIN c : t >= c[key].expires_at}
    IN  [ret |-> None,
         removed |-> Cardinality(keys_to_remove),
         cache |-> Remove(c, keys_to_remove)]

----------------------------------------------------------------------------
\* Values handled by predict_next_day

\* The entries of train_and_predict's model_metrics dict: numbers, and the
\* top_features list.
Float(x) == [kind |-> "float", v |-> x]
List(s) == [kind |-> "list", v |-> s]

\* PredictionValues / PredictionDetail
PredictionValues(v, half) ==
    [value |-> v, confidence_lower |-> v - half, confidence_upper |-> v + half]
PredictionDetail(v) ==
    [visitor_count |-> PredictionValues(v, 1),
     sales_amount |-> PredictionValues(v * 1000, 1000)]

\* Point estimates a training run may produce (LightGBM's output is not
\* determined by the model: any of them)
Estimates == {80, 120}

\* Weather forecasts get_weather_forecast may return
Weathers == {[condition |-> "sunny", temp_max |-> 20, temp_min |-> 12,
              precipitation |-> 40],
             [condition |-> "cloudy", temp_max |-> 10, temp_min |-> 2,
              precipitation |-> 30]}

\* Row counts get_user_historical_data may return
HistoryRows == {0, MinHistoryRows - 1, MinHistoryRows}

Raised == [tag |-> "raised"]

\* The dict train_and_predict returns (lightgbm_model.py, result)
TrainResult(v, rows) ==
    [predictions |-> PredictionDetail(v),
     model_version |-> "v1.0.0-lightgbm",
     model_metrics |-> [visitor_mape |-> Float(5),
                        sales_mape |-> Float(7),
                        training_samples |-> Float(rows),
                        top_features |-> List(<<"day_of_week">>)]]

\* What awaiting train_and_predict yields: the dict, or an exception
TrainOutcomes(rows) == {Raised} \cup {TrainResult(v, rows) : v \in Estimates}

\* pydantic validation of PredictionResponse.model_metrics:
\* Optional[Dict[str, float]] accepts None or a dict whose values are numbers
ValidModelMetrics(m) ==
    \/ m = None
    \/ \A k \in DOMAIN m : m[k].kind = "float"

\* PredictionResponse(...): the model object, or Raised (ValidationError)
PredictionResponse(prediction_date, result, weather_forecast) ==
    IF ValidModelMetrics(result.model_metrics)
    THEN [tag |-> "PredictionResponse",
          prediction_date |-> DateStr(DateOf(prediction_date)),
          predictions |-> result.predictions,
          weather_forecast |-> weather_forecast,
          model_version |-> result.model_version,
          model_metrics |-> result.model_metrics]
    ELSE Raised

\* Responses that can sit in the cache: valid PredictionResponse objects
CachedResponse(v) ==
    [tag |-> "PredictionResponse",
     prediction_date |-> DateStr(1),
     predictions |-> PredictionDetail(v),
     weather_forecast |-> CHOOSE w \in Weathers : w.condition = "sunny",
     model_version |-> "v1.0.0-lightgbm",
     model_metrics |-> None]
CachedValues == {CachedResponse(v) : v \in Estimates}

\* Python truthiness of a cached value (if cached_result:)
Truthy(v) == v # None

\* HTTP outcomes of a request
Ok(body) == [status |-> 200, body |-> body]
HttpError(status, detail) == [status |-> status, body |-> [detail |-> detail]]

\* request.prediction_date: None, a YYYY-MM-DD string, or an unparseable string
DateString(day) == [tag |-> "date", day |-> day]
BadDateString == [tag |-> "unparseable"]
DateInputs == {None, BadDateString}
              \cup {DateString(d) : d \in {0, MinHorizonDays, MaxHorizonDays,
                                           MaxHorizonDays + 1}}

\* prediction_date as resolved at main.py 134-137 (t: the clock read at 137)
ResolveDate(date_in, t) ==
    IF date_in = None THEN t + HoursPerDay ELSE date_in.day * HoursPerDay

\* the horizon check of main.py 140-144 (t: the clock read at 140;
\* TRUE: the date passes)
DateInHorizon(prediction_date, t) ==
    LET today == Midnight(t)
        min_date == today + MinHorizonDays * HoursPerDay
        max_date == today + MaxHorizonDays * HoursPerDay
    IN  ~(prediction_date < min_date \/ prediction_date > max_date)

----------------------------------------------------------------------------
\* predict_next_day, one definition per stretch of code between two awaits.
\* Each yields the request's next record (and the cache, where it is touched).
\* main.py reads the clock twice before the first await: t1 at 137 (only when
\* the request names no date) and t2 at 140, t1 <= t2.

\* A slot's record. prediction_date is kept at midnight of its day: after the
\* horizon check the code reads only its date (.date(), strftime, weekday).
\* A finished request has returned: what is left of it is its response.
IdleReq ==
    [pc |-> "idle", user_id |-> U1, prediction_date |-> 0,
     weather_forecast |-> None, response |-> None]

Finished(rq, response) ==
    [IdleReq EXCEPT !.pc = "done", !.response = response]

\* except Exception as e: HTTPException(500, f"Prediction failed: {str(e)}")
Failed(rq, e) == Finished(rq, HttpError(500, <<"Prediction failed", e>>))

\* main.py 132-153: resolve and validate the date, then await the history
StartRequest(user_id, date_in, t1, t2) ==
    LET rq == [IdleReq EXCEPT !.user_id = user_id]
    IN  IF date_in = BadDateString
        THEN Failed(rq, "strptime")
        ELSE LET prediction_date == ResolveDate(date_in, t1)
             IN  IF ~DateInHorizon(prediction_date, t2)
                 THEN Finished(rq, HttpError(400, <<"InvalidDate">>))
                 ELSE [rq EXCEPT !.pc = "history",
                                 !.prediction_date = Midnight(prediction_date)]

\* Variant of AfterHistory: the row threshold is one too low
AfterHistory_OffByOne(rq, h) ==
    IF h = Raised
    THEN Failed(rq, "get_user_historical_data")
    ELSE IF h.rows = 0
         THEN Finished(rq, HttpError(400, <<"NoData">>))
         ELSE IF h.rows < MinHistoryRows - 1
              THEN Finished(rq, HttpError(400, <<"InsufficientData">>))
              ELSE [rq EXCEPT !.pc = "weather"]

\* Variant of AfterHistory: the catch-all handler rewraps the refusals
AfterHistory_Rewraps(rq, h) ==
    IF h = Raised
    THEN Failed(rq, "get_user_historical_data")
    ELSE IF h.rows < MinHistoryRows
         THEN Failed(rq, "HTTPException")
         ELSE [rq EXCEPT !.pc = "weather"]

\* main.py 153-170: the history arrives (h: a row count, or Raised);
\* check it, then await the weather
AfterHistory(rq, h) ==
    IF h = Raised
    THEN Failed(rq, "get_user_historical_data")
    ELSE IF h.rows = 0
         THEN Finished(rq, HttpError(400, <<"NoData">>))
         ELSE IF h.rows < MinHistoryRows
              THEN Finished(rq, HttpError(400, <<"InsufficientData">>))
              ELSE [rq EXCEPT !.pc = "weather"]

\* Variant of AfterWeather: the cached result is looked up but not returned
AfterWeather_IgnoresHit(rq, c, w, t) ==
    LET cache_key == CacheKey(rq.user_id, rq.prediction_date)
        got == CacheGet(c, cache_key, t)
    IN  [cache |-> got.cache,
         req |-> [rq EXCEPT !.weather_forecast = w, !.pc = "train"]]

\* main.py 170-187: the weather arrives; look the key up in the cache;
\* return the cached result or await train_and_predict
AfterWeather(rq, c, w, t) ==
    LET cache_key == CacheKey(rq.user_id, rq.prediction_date)
        got == CacheGet(c, cache_key, t)
        seen == [rq EXCEPT !.weather_forecast = w]
    IN  [cache |-> got.cache,
         req |-> IF Truthy(got.ret)
                 THEN Finished(seen, Ok(got.ret))
                 ELSE [seen EXCEPT !.pc = "train"]]

\* Variant of AfterTrain: the raw result is cached before the response is built
AfterTrain_CachesFirst(rq, c, o, t1, t2) ==
    LET cache_key == CacheKey(rq.user_id, rq.prediction_date)
    IN  IF o = Raised
        THEN [cache |-> c, wrote |-> FALSE,
              req |-> Failed(rq, "train_and_predict")]
        ELSE LET response == PredictionResponse(rq.prediction_date, o,
                                                rq.weather_forecast)
                 written == CacheSet(c, cache_key, o, DefaultTtlHours, t1, t2)
             IN  IF response = Raised
                 THEN [cache |-> written, wrote |-> TRUE,
                       req |-> Failed(rq, "ValidationError")]
                 ELSE [cache |-> written, wrote |-> TRUE,
                       req |-> Finished(rq, Ok(response))]

\* main.py 187-234: train_and_predict returns (o: its dict, or Raised);
\* assemble the response, cache it, return it. wrote: model_cache.set ran,
\* reading the clock as t1 and then t2.
AfterTrain(rq, c, o, t1, t2) ==
    LET cache_key == CacheKey(rq.user_id, rq.prediction_date)
    IN  IF o = Raised
        THEN [cache |-> c, wrote |-> FALSE,
              req |-> Failed(rq, "train_and_predict")]
        ELSE LET response == PredictionResponse(rq.prediction_date, o,
                                                rq.weather_forecast)
             IN  IF response = Raised
                 THEN [cache |-> c, wrote |-> FALSE,
                       req |-> Failed(rq, "ValidationError")]
                 ELSE [cache |-> CacheSet(c, cache_key, response,
                                          DefaultTtlHours, t1, t2),
                       wrote |-> TRUE,
                       req |-> Finished(rq, Ok(response))]

----------------------------------------------------------------------------
\* Actions of the application

\* Variant of Begin: the cache is consulted before the date is checked
Begin_CacheFirst(r, user_id, date_in, t2) ==
    /\ req[r].pc \in {"idle", "done"}
    /\ t2 \in LaterReads(now)
    /\ LET rq == [IdleReq EXCEPT !.user_id = user_id]
           key == CacheKey(user_id,
                           IF date_in = BadDateString THEN 0
                           ELSE ResolveDate(date_in, now))
           got == CacheGet(cache, key, now)
       IN  /\ req' = [req EXCEPT ![r] =
                        IF Truthy(got.ret)
                        THEN Finished(rq, Ok(got.ret))
                        ELSE StartRequest(user_id, date_in, now, t2)]
           /\ cache' = got.cache
    /\ now' = t2
    /\ stale' = stale \ {r}
    /\ UNCHANGED <<ret, lastSet>>
    /\ UNCHANGED mlVars

\* t2: the clock when the handler reads it the second time
Begin(r, user_id, date_in, t2) ==
    /\ req[r].pc \in {"idle", "done"}
    /\ t2 \in LaterReads(now)
    /\ req' = [req EXCEPT ![r] = StartRequest(user_id, date_in, now, t2)]
    /\ now' = t2
    /\ stale' = stale \ {r}
    /\ UNCHANGED <<cache, ret, lastSet>>
    /\ UNCHANGED mlVars

HistoryDone(r, h) ==
    /\ req[r].pc = "history"
    /\ req' = [req EXCEPT ![r] = AfterHistory(req[r], h)]
    /\ UNCHANGED <<cache, now, ret, lastSet, stale>>
    /\ UNCHANGED mlVars

WeatherDone(r, w) ==
    /\ req[r].pc = "weather"
    /\ LET nxt == AfterWeather(req[r], cache, w, now)
       IN  /\ req' = [req EXCEPT ![r] = nxt.req]
           /\ cache' = nxt.cache
           /\ stale' = IF nxt.req.pc = "done" THEN stale \ {r} ELSE stale
    /\ UNCHANGED <<now, ret, lastSet>>
    /\ UNCHANGED mlVars

TrainDone(r, o, t2) ==
    /\ req[r].pc = "train"
    /\ t2 \in LaterReads(now)
    /\ LET nxt == AfterTrain(req[r], cache, o, now, t2)
       IN  /\ req' = [req EXCEPT ![r] = nxt.req]
           /\ cache' = nxt.cache
           /\ now' = IF nxt.wrote THEN t2 ELSE now
    /\ stale' = stale \ {r}
    /\ UNCHANGED <<ret, lastSet>>
    /\ UNCHANGED mlVars

\* POST /retrain (main.py 237-260)
Retrain(user_id) ==
    /\ cache' = ClearUserCache(cache, user_id).cache
    /\ stale' = stale \cup {r \in Reqs : /\ req[r].user_id = user_id
                                         /\ req[r].pc \in {"weather", "train"}}
    /\ UNCHANGED <<now, req, ret, lastSet>>
    /\ UNCHANGED mlVars

\* The clock advances
Tick ==
    /\ now + TickHours <= MaxNow
    /\ now' = now + TickHours
    /\ UNCHANGED <<cache, req, ret, lastSet, stale>>
    /\ UNCHANGED mlVars

----------------------------------------------------------------------------
\* Direct calls of ModelCache's methods

\* Every key the model uses
AllKeys == {CacheKey(u, d * HoursPerDay) :
                u \in Users, d \in {MinHorizonDays, MaxHorizonDays}}
\* Keys of the direct calls under CacheSpec
Keys == {CacheKey(U1, MinHorizonDays * HoursPerDay),
         CacheKey(U12, MinHorizonDays * HoursPerDay),
         CacheKey(U1, MaxHorizonDays * HoursPerDay)}
\* Keys of the direct set calls under Spec
AppKeys == {CacheKey(u, MinHorizonDays * HoursPerDay) : u \in Users}
Ttls == {0, DefaultTtlHours}
Prefixes == Users \cup {<<"x">>}

Called(op, arg, value, printed) ==
    [op |-> op, arg |-> arg, value |-> value, printed |-> printed]

SetCall(key, value, ttl_hours, t2) ==
    /\ t2 \in LaterReads(now)
    /\ cache' = CacheSet(cache, key, value, ttl_hours, now, t2)
    /\ now' = t2
    /\ ret' = Called("set", key, None, ttl_hours)
    /\ lastSet' = [lastSet EXCEPT ![key] = value]
    /\ UNCHANGED <<req, stale>>
    /\ UNCHANGED mlVars

\* model_cache.set(key, value) called on the application's cache
PutCall(key, value, t2) ==
    /\ t2 \in LaterReads(now)
    /\ cache' = CacheSet(cache, key, value, DefaultTtlHours, now, t2)
    /\ now' = t2
    /\ UNCHANGED <<req, ret, lastSet, stale>>
    /\ UNCHANGED mlVars

GetCall(key) ==
    /\ LET got == CacheGet(cache, key, now)
       IN  /\ cache' = got.cache
           /\ ret' = Called("get", key, got.ret, 0)
    /\ UNCHANGED <<now, req, lastSet, stale>>
    /\ UNCHANGED mlVars

ClearUserCall(user_id) ==
    /\ LET got == ClearUserCache(cache, user_id)
       IN  /\ cache' = got.cache
           /\ ret' = Called("clear_user_cache", user_id, got.ret, got.removed)
    /\ UNCHANGED <<now, req, lastSet, stale>>
    /\ UNCHANGED mlVars

ClearAllCall ==
    /\ LET got == ClearAll(cache)
       IN  /\ cache' = got.cache
           /\ ret' = Called("clear_all", <<>>, got.ret, got.removed)
    /\ UNCHANGED <<now, req, lastSet, stale>>
    /\ UNCHANGED mlVars

GetStatsCall ==
    /\ ret' = Called("get_stats", <<>>, GetStats(cache, now), 0)
    /\ UNCHANGED <<cache, now, req, lastSet, stale>>
    /\ UNCHANGED mlVars

CleanupExpiredCall ==
    /\ LET got == CleanupExpired(cache, now)
       IN  /\ cache' = got.cache
           /\ ret' = Called("cleanup_expired", <<>>, got.ret, got.removed)
    /\ UNCHANGED <<now, req, lastSet, stale>>
    /\ UNCHANGED mlVars

----------------------------------------------------------------------------
\* LightGBMPredictor


\* Bounds of the predictor's inputs
MaxExtraRows == 1

\* Program constants of lightgbm_model.py
MinCleanRows == 30
TestSizeInv == 5
ZScore90 == 1645
ZScore95 == 1960
DefaultStdPct == 15

\* Cells of a DataFrame: a finite number n/d, NaN, or an infinity
Num(n) == [t |-> "num", n |-> n, d |-> 1]
NaN == [t |-> "nan"]

\* An exception raised to the caller
Raise(exc, msg) == [tag |-> "raised", exc |-> exc, msg |-> msg]
IsRaised(v) == "tag" \in DOMAIN v /\ v.tag = "raised"

\* A one-row DataFrame with its columns in order
Row(cells) == [tag |-> "row", cells |-> cells]

EmptyDict == [k \in {} |-> None]

ToSet(seq) == {seq[i] : i \in DOMAIN seq}

\* LightGBMPredictor.__init__
NewPredictor ==
    [visitor_model |-> None, sales_model |-> None,
     feature_columns |-> None, model_metrics |-> EmptyDict]

\* The columns train never uses as features
NonFeatureColumns(target_visitor, target_sales) ==
    {target_visitor, target_sales, "date", "user_id", "id"}

\* feature_cols of train (lightgbm_model.py 45-56), in the table's order
FeatureCols(df, target_visitor, target_sales) ==
    SelectSeq(df.columns,
              LAMBDA col : col \notin NonFeatureColumns(target_visitor,
                                                        target_sales))

\* df.dropna(subset=...): the index labels of the rows with no NaN in subset,
\* in the table's order
DropNa(df, subset) ==
    SelectSeq([i \in DOMAIN df.rows |-> i],
              LAMBDA i : \A c \in subset : df.rows[i][c] # NaN)

\* Variant of TrainTestSplit: the validation part is taken from the front
TrainTestSplit_TestFirst(index) ==
    LET n == Len(index)
        n_test == (n + TestSizeInv - 1) \div TestSizeInv
    IN  [train |-> SubSeq(index, n_test + 1, n),
         test |-> SubSeq(index, 1, n_test)]

\* sklearn's train_test_split(test_size=0.2, shuffle=False) on the rows
\* labelled index: n_test = ceil(0.2 * n), n_train = n - n_test, the first
\* n_train rows train, the rest validate. (In IEEE doubles ceil(0.2 * n)
\* equals the exact ceiling of n/5 for every n up to 100.)
TrainTestSplit(index) ==
    LET n == Len(index)
        n_test == (n + TestSizeInv - 1) \div TestSizeInv
        n_train == n - n_test
    IN  [train |-> SubSeq(index, 1, n_train),
         test |-> SubSeq(index, n_train + 1, n)]

\* A fitted lgb.Booster: the rows it was fitted and validated on
Booster(split) ==
    [tag |-> "Booster", fitted_on |-> split.train, validated_on |-> split.test]

\* Variant of TooFewCleanRows: the threshold is one too low
TooFewCleanRows_OffByOne(df_clean) == Len(df_clean) < MinCleanRows - 1

\* if len(df_clean) < 30 (lightgbm_model.py 62)
TooFewCleanRows(df_clean) == Len(df_clean) < MinCleanRows

\* LightGBMPredictor.train with the default target names. fit is what LightGBM
\* does with the data: whether each lgb.train call returns or raises, and the
\* validation errors. The instance after the call, and what the call returns
\* or raises. (The MAE and MAPE entries of model_metrics are left out.)
Train(self, df, fit) ==
    LET feature_cols == FeatureCols(df, "visitor_count", "sales_amount")
        pinned == [self EXCEPT !.feature_columns = feature_cols]
        df_clean == DropNa(df, ToSet(feature_cols)
                                 \cup {"visitor_count", "sales_amount"})
        split == TrainTestSplit(df_clean)
        metrics == [visitor_rmse |-> fit.visitor_rmse,
                    sales_rmse |-> fit.sales_rmse,
                    training_samples |-> Len(split.train),
                    validation_samples |-> Len(split.test)]
    IN  IF TooFewCleanRows(df_clean)
        THEN [self |-> pinned,
              ret |-> Raise("ValueError",
                            <<"Insufficient clean data", Len(df_clean)>>)]
        ELSE IF ~fit.visitor_ok
        THEN [self |-> pinned, ret |-> Raise("LightGBMError", <<"visitor">>)]
        ELSE IF ~fit.sales_ok
        THEN [self |-> [pinned EXCEPT !.visitor_model = Booster(split)],
              ret |-> Raise("LightGBMError", <<"sales">>)]
        ELSE [self |-> [pinned EXCEPT !.visitor_model = Booster(split),
                                      !.sales_model = Booster(split),
                                      !.model_metrics = metrics],
              ret |-> metrics]

\* The unit of the numbers of predict: 10^-7. Point estimates and RMSEs come
\* in hundredths, z in thousandths, the default deviation in hundredths of
\* the estimate, so every product is a whole number of units.
Unit == 10000000
PerCenti == 100000

\* int(x) of a number of units: truncation towards zero
IntOf(x) == IF x >= 0 THEN x \div Unit ELSE -((-x) \div Unit)

Max0(x) == IF x > 0 THEN x ELSE 0

\* z_score * std for std in units (a multiple of 1000 units)
ZTimes(confidence_level, std) ==
    (IF confidence_level = 90 THEN ZScore90 ELSE ZScore95) * (std \div 1000)

\* self.model_metrics.get(key, pred * 0.15), in units (pred in hundredths)
StdOf(self, key, pred) ==
    IF key \in DOMAIN self.model_metrics
    THEN self.model_metrics[key] * PerCenti
    ELSE pred * DefaultStdPct * (PerCenti \div 100)

\* X[self.feature_columns]: the pinned columns of row X in the pinned order,
\* or KeyError when X lacks one
SelectColumns(X, feature_columns) ==
    IF ToSet(feature_columns) \subseteq DOMAIN X
    THEN Row([i \in DOMAIN feature_columns |->
                 [col |-> feature_columns[i], v |-> X[feature_columns[i]]]])
    ELSE Raise("KeyError", <<"not in index">>)

\* Variant of FillMissingColumns: nothing is added
FillMissingColumns_Nothing(X_pred, feature_columns) == X_pred

\* train_and_predict, lightgbm_model.py 324-327: every pinned column the
\* prediction row lacks is added with value 0
FillMissingColumns(X_pred, feature_columns) ==
    [col \in (DOMAIN X_pred) \cup ToSet(feature_columns) |->
        IF col \in DOMAIN X_pred THEN X_pred[col] ELSE Num(0)]

\* Variant of Untrained: only the visitor model is looked at
Untrained_VisitorOnly(self) == self.visitor_model = None

\* if self.visitor_model is None or self.sales_model is None
Untrained(self) == self.visitor_model = None \/ self.sales_model = None

\* Variant of VisitorResult: the lower bound is not clamped at 0
VisitorResult_LowerUnclamped(visitor_pred, z_std, visitor_std) ==
    [value |-> Max0(IntOf(visitor_pred * PerCenti)),
     confidence_lower |-> IntOf(visitor_pred * PerCenti - z_std),
     confidence_upper |-> Max0(IntOf(visitor_pred * PerCenti + z_std)),
     std |-> visitor_std]

\* visitor_result of predict (lightgbm_model.py 191-196): whole visitors.
\* visitor_pred in hundredths, z_std and visitor_std in units.
VisitorResult(visitor_pred, z_std, visitor_std) ==
    [value |-> Max0(IntOf(visitor_pred * PerCenti)),
     confidence_lower |-> Max0(IntOf(visitor_pred * PerCenti - z_std)),
     confidence_upper |-> Max0(IntOf(visitor_pred * PerCenti + z_std)),
     std |-> visitor_std]

\* sales_result of predict (lightgbm_model.py 198-203): floats, in units
SalesResult(sales_pred, z_std, sales_std) ==
    [value |-> Max0(sales_pred * PerCenti),
     confidence_lower |-> Max0(sales_pred * PerCenti - z_std),
     confidence_upper |-> Max0(sales_pred * PerCenti + z_std),
     std |-> sales_std]

\* LightGBMPredictor.predict. confidence_level in percent; visitor_pred and
\* sales_pred are what the two models answer for the selected row, in
\* hundredths. Yields what the call returns or raises, and X_pred, the row
\* handed to the models.
Predict(self, X, confidence_level, visitor_pred, sales_pred) ==
    IF Untrained(self)
    THEN [ret |-> Raise("ValueError", <<"Models not trained">>),
          X_pred |-> None]
    ELSE LET X_pred == SelectColumns(X, self.feature_columns)
             visitor_std == StdOf(self, "visitor_rmse", visitor_pred)
             sales_std == StdOf(self, "sales_rmse", sales_pred)
         IN  IF IsRaised(X_pred)
             THEN [ret |-> X_pred, X_pred |-> None]
             ELSE [ret |-> [visitor_result |->
                                VisitorResult(visitor_pred,
                                    ZTimes(confidence_level, visitor_std),
                                    visitor_std),
                            sales_result |->
                                SalesResult(sales_pred,
                                    ZTimes(confidence_level, sales_std),
                                    sales_std)],
                   X_pred |-> X_pred]

----------------------------------------------------------------------------
\* Feature engineering (src/ml_api/features/engineering.py).  A DataFrame is
\* a function from column names to columns, a column a sequence of cells.
\* Floats are exact fractions in lowest terms; sqrt, sin and cos stay
\* symbolic (finite) cells.

\* Longest input table of create_features
MaxRows == 8

\* 1e-5 is 1 / EpsInv
EpsInv == 100000

RECURSIVE Gcd(_, _)
Gcd(a, b) == IF b = 0 THEN a ELSE Gcd(b, a % b)

Abs(x) == IF x < 0 THEN -x ELSE x

Frac(n, d) ==
    LET s == IF d < 0 THEN -1 ELSE 1
        g == Gcd(Abs(n), Abs(d))
    IN  [t |-> "num", n |-> (s * n) \div g, d |-> (s * d) \div g]

Inf(sign) == [t |-> "inf", s |-> sign]
Sqrt(x) == IF x.n = 0 THEN x ELSE [t |-> "sqrt", of |-> x]
Sin(k, m) == [t |-> "sin", k |-> k, m |-> m]
Cos(k, m) == [t |-> "cos", k |-> k, m |-> m]
Timestamp(k) == [t |-> "date", day |-> k]

Add(x, y) ==
    IF x = NaN \/ y = NaN THEN NaN
    ELSE LET g == Gcd(x.d, y.d)
         IN  Frac(x.n * (y.d \div g) + y.n * (x.d \div g), (x.d \div g) * y.d)

Sub(x, y) ==
    IF x = NaN \/ y = NaN THEN NaN ELSE Add(x, Frac(-y.n, y.d))

\* IEEE division: x/0 is +-inf, 0/0 is NaN
Div(x, y) ==
    IF x = NaN \/ y = NaN THEN NaN
    ELSE IF y.n = 0
         THEN IF x.n = 0 THEN NaN ELSE Inf(IF x.n > 0 THEN 1 ELSE -1)
         ELSE Frac(x.n * y.d, x.d * y.n)

\* The dates the tables are drawn from: 2024-12-27 .. 2025-01-29 as
\* day 1 .. 34, with the fields of pandas' .dt accessor and jpholiday
\* (holidays: 2025-01-01 and 2025-01-13)
Calendar ==
    << [year |-> 2024, month |-> 12, day |-> 27, dayofweek |-> 4, dayofyear |-> 362, week |-> 52, quarter |-> 4, holiday |-> 0],
       [year |-> 2024, month |-> 12, day |-> 28, dayofweek |-> 5, dayofyear |-> 363, week |-> 52, quarter |-> 4, holiday |-> 0],
       [year |-> 2024, month |-> 12, day |-> 29, dayofweek |-> 6, dayofyear |-> 364, week |-> 52, quarter |-> 4, holiday |-> 0],
       [year |-> 2024, month |-> 12, day |-> 30, dayofweek |-> 0, dayofyear |-> 365, week |-> 1, quarter |-> 4, holiday |-> 0],
       [year |-> 2024, month |-> 12, day |-> 31, dayofweek |-> 1, dayofyear |-> 366, week |-> 1, quarter |-> 4, holiday |-> 0],
       [year |-> 2025, month |-> 1, day |-> 1, dayofweek |-> 2, dayofyear |-> 1, week |-> 1, quarter |-> 1, holiday |-> 1],
       [year |-> 2025, month |-> 1, day |-> 2, dayofweek |-> 3, dayofyear |-> 2, week |-> 1, quarter |-> 1, holiday |-> 0],
       [year |-> 2025, month |-> 1, day |-> 3, dayofweek |-> 4, dayofyear |-> 3, week |-> 1, quarter |-> 1, holiday |-> 0],
       [year |-> 2025, month |-> 1, day |-> 4, dayofweek |-> 5, dayofyear |-> 4, week |-> 1, quarter |-> 1, holiday |-> 0],
       [year |-> 2025, month |-> 1, day |-> 5, dayofweek |-> 6, dayofyear |-> 5, week |-> 1, quarter |-> 1, holiday |-> 0],
       [year |-> 2025, month |-> 1, day |-> 6, dayofweek |-> 0, dayofyear |-> 6, week |-> 2, quarter |-> 1, holiday |-> 0],
       [year |-> 2025, month |-> 1, day |-> 7, dayofweek |-> 1, dayofyear |-> 7, week |-> 2, quarter |-> 1, holiday |-> 0],
       [year |-> 2025, month |-> 1, day |-> 8, dayofweek |-> 2, dayofyear |-> 8, week |-> 2, quarter |-> 1, holiday |-> 0],
       [year |-> 2025, month |-> 1, day |-> 9, dayofweek |-> 3, dayofyear |-> 9, week |-> 2, quarter |-> 1, holiday |-> 0],
       [year |-> 2025, month |-> 1, day |-> 10, dayofweek |-> 4, dayofyear |-> 10, week |-> 2, quarter |-> 1, holiday |-> 0],
       [year |-> 2025, month |-> 1, day |-> 11, dayofweek |-> 5, dayofyear |-> 11, week |-> 2, quarter |-> 1, holiday |-> 0],
       [year |-> 2025, month |-> 1, day |-> 12, dayofweek |-> 6, dayofyear |-> 12, week |-> 2, quarter |-> 1, holiday |-> 0],
       [year |-> 2025, month |-> 1, day |-> 13, dayofweek |-> 0, dayofyear |-> 13, week |-> 3, quarter |-> 1, holiday |-> 1],
       [year |-> 2025, month |-> 1, day |-> 14, dayofweek |-> 1, dayofyear |-> 14, week |-> 3, quarter |-> 1, holiday |-> 0],
       [year |-> 2025, month |-> 1, day |-> 15, dayofweek |-> 2, dayofyear |-> 15, week |-> 3, quarter |-> 1, holiday |-> 0],
       [year |-> 2025, month |-> 1, day |-> 16, dayofweek |-> 3, dayofyear |-> 16, week |-> 3, quarter |-> 1, holiday |-> 0],
       [year |-> 2025, month |-> 1, day |-> 17, dayofweek |-> 4, dayofyear |-> 17, week |-> 3, quarter |-> 1, holiday |-> 0],
       [year |-> 2025, month |-> 1, day |-> 18, dayofweek |-> 5, dayofyear |-> 18, week |-> 3, quarter |-> 1, holiday |-> 0],
       [year |-> 2025, month |-> 1, day |-> 19, dayofweek |-> 6, dayofyear |-> 19, week |-> 3, quarter |-> 1, holiday |-> 0],
       [year |-> 2025, month |-> 1, day |-> 20, dayofweek |-> 0, dayofyear |-> 20, week |-> 4, quarter |-> 1, holiday |-> 0],
       [year |-> 2025, month |-> 1, day |-> 21, dayofweek |-> 1, dayofyear |-> 21, week |-> 4, quarter |-> 1, holiday |-> 0],
       [year |-> 2025, month |-> 1, day |-> 22, dayofweek |-> 2, dayofyear |-> 22, week |-> 4, quarter |-> 1, holiday |-> 0],
       [year |-> 2025, month |-> 1, day |-> 23, dayofweek |-> 3, dayofyear |-> 23, week |-> 4, quarter |-> 1, holiday |-> 0],
       [year |-> 2025, month |-> 1, day |-> 24, dayofweek |-> 4, dayofyear |-> 24, week |-> 4, quarter |-> 1, holiday |-> 0],
       [year |-> 2025, month |-> 1, day |-> 25, dayofweek |-> 5, dayofyear |-> 25, week |-> 4, quarter |-> 1, holiday |-> 0],
       [year |-> 2025, month |-> 1, day |-> 26, dayofweek |-> 6, dayofyear |-> 26, week |-> 4, quarter |-> 1, holiday |-> 0],
       [year |-> 2025, month |-> 1, day |-> 27, dayofweek |-> 0, dayofyear |-> 27, week |-> 5, quarter |-> 1, holiday |-> 0],
       [year |-> 2025, month |-> 1, day |-> 28, dayofweek |-> 1, dayofyear |-> 28, week |-> 5, quarter |-> 1, holiday |-> 0],
       [year |-> 2025, month |-> 1, day |-> 29, dayofweek |-> 2, dayofyear |-> 29, week |-> 5, quarter |-> 1, holiday |-> 0] >>

NoColumns == [c \in {} |-> <<>>]

Bool(b) == Num(IF b THEN 1 ELSE 0)

RECURSIVE SortedDays(_)
SortedDays(S) ==
    IF S = {} THEN <<>>
    ELSE LET m == CHOOSE x \in S : \A y \in S : x <= y
         IN  <<m>> \o SortedDays(S \ {m})

\* df.sort_values("date").reset_index(drop=True)
SortValues(df) ==
    LET n == Len(df["date"])
        days == SortedDays({df["date"][i].day : i \in 1..n})
        at == [k \in 1..n |-> CHOOSE i \in 1..n : df["date"][i].day = days[k]]
    IN  [c \in DOMAIN df |-> [k \in 1..n |-> df[c][at[k]]]]

Valid(x) == SelectSeq(x, LAMBDA c : c # NaN)

RECURSIVE SumCells(_)
SumCells(x) == IF x = <<>> THEN Num(0) ELSE Add(Head(x), SumCells(Tail(x)))

RECURSIVE SumFn(_)
SumFn(f) ==
    IF DOMAIN f = {} THEN 0
    ELSE LET j == CHOOSE i \in DOMAIN f : TRUE
         IN  f[j] + SumFn([i \in DOMAIN f \ {j} |-> f[i]])

\* mean of the observations (non-NaN cells) of x, NaN when there is none
MeanOf(x) ==
    LET v == Valid(x)
    IN  IF Len(v) < 1 THEN NaN ELSE Div(SumCells(v), Num(Len(v)))

\* the rows i-w+1 .. i of a column
Window(s, i, w) == SubSeq(s, IF i - w + 1 < 1 THEN 1 ELSE i - w + 1, i)

\* series.rolling(window=w, min_periods=1).mean()
RollingMean(s, w) == [i \in 1..Len(s) |-> MeanOf(Window(s, i, w))]

\* series.rolling(window=w, min_periods=1).std(): sample deviation (ddof=1)
\* of integer observations, NaN with fewer than two
RollingStd(s, w) ==
    [i \in 1..Len(s) |->
        LET v == Valid(Window(s, i, w))
            k == Len(v)
            sum == SumFn([j \in 1..k |-> v[j].n])
            sq == SumFn([j \in 1..k |-> v[j].n * v[j].n])
        IN  IF k < 2 THEN NaN
            ELSE Sqrt(Frac(k * sq - sum * sum, k * (k - 1)))]

\* series.rolling(window=w, min_periods=1).max() / .min() of integers
RollingMax(s, w) ==
    [i \in 1..Len(s) |->
        LET v == Valid(Window(s, i, w))
        IN  IF v = <<>> THEN NaN
            ELSE CHOOSE c \in ToSet(v) : \A e \in ToSet(v) : e.n <= c.n]

RollingMin(s, w) ==
    [i \in 1..Len(s) |->
        LET v == Valid(Window(s, i, w))
        IN  IF v = <<>> THEN NaN
            ELSE CHOOSE c \in ToSet(v) : \A e \in ToSet(v) : c.n <= e.n]

\* series.shift(k)
Shift(s, k) ==
    [i \in 1..Len(s) |-> IF i - k \in 1..Len(s) THEN s[i - k] ELSE NaN]

\* series.diff(k)
Diff(s, k) == [i \in 1..Len(s) |-> Sub(s[i], Shift(s, k)[i])]

\* series.pct_change(k): s / s.shift(k) - 1 (the series holds no NaN to pad)
PctChange(s, k) ==
    [i \in 1..Len(s) |->
        LET q == Div(s[i], Shift(s, k)[i])
        IN  IF q = NaN \/ q.t = "inf" THEN q ELSE Sub(q, Num(1))]

\* Variant of TrendOf: the slope has the opposite sign
TrendOf_Negated(x) ==
    LET mask == {j \in 1..Len(x) : x[j] # NaN}
        k == Cardinality(mask)
        st == SumFn([j \in mask |-> j - 1])
        stt == SumFn([j \in mask |-> (j - 1) * (j - 1)])
        sx == SumFn([j \in mask |-> x[j].n])
        stx == SumFn([j \in mask |-> (j - 1) * x[j].n])
    IN  IF Len(x) < 2 THEN Num(0)
        ELSE IF k < 2 THEN Num(0)
        ELSE Frac(st * sx - k * stx, k * stt - st * st)

\* _trend inside calculate_trend: slope of the least-squares line through
\* the observations of the window x, over t = 0 .. len(x)-1
TrendOf(x) ==
    LET mask == {j \in 1..Len(x) : x[j] # NaN}
        k == Cardinality(mask)
        st == SumFn([j \in mask |-> j - 1])
        stt == SumFn([j \in mask |-> (j - 1) * (j - 1)])
        sx == SumFn([j \in mask |-> x[j].n])
        stx == SumFn([j \in mask |-> (j - 1) * x[j].n])
    IN  IF Len(x) < 2 THEN Num(0)
        ELSE IF k < 2 THEN Num(0)
        ELSE Frac(k * stx - st * sx, k * stt - st * st)

\* calculate_trend: rolling(window, min_periods=2).apply(_trend, raw=True)
CalculateTrend(series, window) ==
    [i \in 1..Len(series) |->
        LET x == Window(series, i, window)
        IN  IF Len(Valid(x)) < 2 THEN NaN ELSE TrendOf(x)]

\* groupby("day_of_week")[col].transform(
\*     lambda x: x.expanding().mean().shift(1))
DowAvg(s, day_of_week) ==
    [i \in 1..Len(s) |->
        MeanOf([j \in 1..(i - 1) |->
                    IF day_of_week[j] = day_of_week[i] THEN s[j] ELSE NaN])]

\* the rolling, lag, difference, change, growth and trend columns of one
\* target column
TargetFeatures(df, col) ==
    LET s == df[col]
        lag7 == Shift(s, 7)
    IN  (col \o "_ma7" :> RollingMean(s, 7))
        @@ (col \o "_ma14" :> RollingMean(s, 14))
        @@ (col \o "_ma28" :> RollingMean(s, 28))
        @@ (col \o "_std7" :> RollingStd(s, 7))
        @@ (col \o "_max7" :> RollingMax(s, 7))
        @@ (col \o "_min7" :> RollingMin(s, 7))
        @@ (col \o "_lag1" :> Shift(s, 1))
        @@ (col \o "_lag7" :> lag7)
        @@ (col \o "_lag14" :> Shift(s, 14))
        @@ (col \o "_lag28" :> Shift(s, 28))
        @@ (col \o "_diff1" :> Diff(s, 1))
        @@ (col \o "_diff7" :> Diff(s, 7))
        @@ (col \o "_pct_change7" :> PctChange(s, 7))
        @@ (col \o "_pct_change14" :> PctChange(s, 14))
        @@ (col \o "_wow_growth" :>
                [i \in 1..Len(s) |->
                    Div(Sub(s[i], lag7[i]), Add(lag7[i], Frac(1, EpsInv)))])
        @@ (col \o "_trend_7d" :> CalculateTrend(s, 7))
        @@ (col \o "_trend_14d" :> CalculateTrend(s, 14))

TargetCols == <<"visitor_count", "sales_amount">>

WeatherCols ==
    {"weather_code", "temp_avg", "temp_range", "precipitation",
     "is_rainy", "is_hot", "is_cold", "comfort_index"}

RECURSIVE FFill(_)
FFill(s) ==
    IF Len(s) <= 1 THEN s
    ELSE LET p == FFill(SubSeq(s, 1, Len(s) - 1))
             last == s[Len(s)]
         IN  Append(p, IF last = NaN THEN p[Len(p)] ELSE last)

RECURSIVE BFill(_)
BFill(s) ==
    IF Len(s) <= 1 THEN s
    ELSE LET r == BFill(Tail(s))
         IN  <<IF Head(s) = NaN THEN Head(r) ELSE Head(s)>> \o r

\* Variant of FillNa0: the NaNs stay
FillNa0_Nothing(s) == s

\* series.fillna(0)
FillNa0(s) == [i \in 1..Len(s) |-> IF s[i] = NaN THEN Num(0) ELSE s[i]]

ReplaceInf(s) == [i \in 1..Len(s) |-> IF s[i].t = "inf" THEN Num(0) ELSE s[i]]

\* Variant of CleanUp: the NaNs left by the two fills stay
CleanUp_NoZeroFill(df) ==
    [c \in DOMAIN df |-> ReplaceInf(BFill(FFill(df[c])))]

\* create_features, lines 142-148: ffill, bfill, fillna(0), replace(+-inf, 0)
CleanUp(df) ==
    [c \in DOMAIN df |-> ReplaceInf(FillNa0(BFill(FFill(df[c]))))]

\* create_features
CreateFeatures(df0, include_weather) ==
    LET df == SortValues(df0)
        date == df["date"]
        n == Len(date)
        cal == [i \in 1..n |-> Calendar[date[i].day]]
        day_of_week == [i \in 1..n |-> cal[i].dayofweek]
        is_holiday == [i \in 1..n |-> Num(cal[i].holiday)]
        time ==
            [year |-> [i \in 1..n |-> Num(cal[i].year)],
             month |-> [i \in 1..n |-> Num(cal[i].month)],
             day |-> [i \in 1..n |-> Num(cal[i].day)],
             day_of_week |-> [i \in 1..n |-> Num(day_of_week[i])],
             day_of_year |-> [i \in 1..n |-> Num(cal[i].dayofyear)],
             week_of_year |-> [i \in 1..n |-> Num(cal[i].week)],
             quarter |-> [i \in 1..n |-> Num(cal[i].quarter)],
             is_weekend |-> [i \in 1..n |-> Bool(day_of_week[i] \in {5, 6})],
             is_monday |-> [i \in 1..n |-> Bool(day_of_week[i] = 0)],
             is_friday |-> [i \in 1..n |-> Bool(day_of_week[i] = 4)],
             is_sunday |-> [i \in 1..n |-> Bool(day_of_week[i] = 6)],
             is_month_start |-> [i \in 1..n |-> Bool(cal[i].day <= 5)],
             is_month_end |-> [i \in 1..n |-> Bool(cal[i].day >= 25)],
             is_month_middle |->
                 [i \in 1..n |-> Bool(cal[i].day >= 10 /\ cal[i].day <= 20)],
             is_holiday |-> is_holiday,
             is_day_before_holiday |-> FillNa0(Shift(is_holiday, -1)),
             is_day_after_holiday |-> FillNa0(Shift(is_holiday, 1)),
             dow_sin |-> [i \in 1..n |-> Sin(day_of_week[i], 7)],
             dow_cos |-> [i \in 1..n |-> Cos(day_of_week[i], 7)],
             month_sin |-> [i \in 1..n |-> Sin(cal[i].month, 12)],
             month_cos |-> [i \in 1..n |-> Cos(cal[i].month, 12)]]
        cols == {TargetCols[k] : k \in 1..Len(TargetCols)} \cap DOMAIN df
        rolling(col) ==
            IF col \in cols THEN TargetFeatures(df, col) ELSE NoColumns
        avg_spend_per_customer ==
            [i \in 1..n |->
                Div(df["sales_amount"][i],
                    Add(df["visitor_count"][i], Frac(1, EpsInv)))]
        interaction ==
            IF {"visitor_count", "sales_amount"} \subseteq DOMAIN df
            THEN [avg_spend_per_customer |-> avg_spend_per_customer,
                  avg_spend_ma7 |-> RollingMean(avg_spend_per_customer, 7)]
            ELSE NoColumns
        seasonal(col) ==
            IF col \in cols
            THEN (col \o "_dow_avg") :> DowAvg(df[col], day_of_week)
            ELSE NoColumns
        sofar ==
            seasonal(TargetCols[2]) @@ seasonal(TargetCols[1]) @@ interaction
            @@ rolling(TargetCols[2]) @@ rolling(TargetCols[1]) @@ time @@ df
        weather ==
            IF include_weather
            THEN [c \in WeatherCols \ DOMAIN sofar |->
                      [i \in 1..n |-> Num(0)]]
            ELSE NoColumns
    IN  CleanUp(sofar @@ weather)

\* pattern in col
Contains(col, pattern) ==
    \E i \in 1..(Len(col) - Len(pattern) + 1) :
        SubSeq(col, i, i + Len(pattern) - 1) = pattern

\* encode_weather_condition (the conditions drawn are lower-case already;
\* the kanji of the source are written hare, kumori, ame, yuki)
EncodeWeatherCondition(condition) ==
    LET any(words) == \E word \in words : Contains(condition, word)
    IN  IF any({"hare", "sunny", "clear"})
        THEN IF Contains(condition, "kumori") \/ Contains(condition, "cloud")
             THEN 1 ELSE 0
        ELSE IF any({"kumori", "cloud", "overcast"})
        THEN IF Contains(condition, "hare") \/ Contains(condition, "sun")
             THEN 1 ELSE 2
        ELSE IF any({"ame", "rain", "shower"}) THEN 3
        ELSE IF any({"yuki", "snow"}) THEN 4
        ELSE 5

\* max(0, 100 - x), x a fraction
Score(x) ==
    LET y == Sub(Num(100), x) IN IF y.n > 0 THEN y ELSE Num(0)

\* get_weather_impact_features
GetWeatherImpactFeatures(weather_data) ==
    LET temp_avg == Frac(weather_data.temp_max + weather_data.temp_min, 2)
        off == Sub(temp_avg, Num(22))
        temp_score == Score(Frac(Abs(off.n) * 5, off.d))
        rain_score == Score(Num(weather_data.precipitation))
        humidity == IF "humidity" \in DOMAIN weather_data
                    THEN weather_data.humidity ELSE 65
        humidity_score == Score(Num(Abs(humidity - 50) * 2))
    IN  [weather_code |-> Num(EncodeWeatherCondition(weather_data.condition)),
         temp_avg |-> temp_avg,
         temp_range |-> Num(weather_data.temp_max - weather_data.temp_min),
         is_rainy |-> Bool(weather_data.precipitation > 50),
         is_hot |-> Bool(weather_data.temp_max > 30),
         is_cold |-> Bool(weather_data.temp_min < 5),
         comfort_index |->
             Div(Add(Add(temp_score, rain_score), humidity_score), Num(3))]

\* The substrings that select the columns carried forward
CarryPatterns ==
    {"_ma", "_lag", "_std", "_trend", "_dow_avg", "_pct_change"}

\* create_prediction_features; the returned DataFrame is the sequence of
\* its rows
CreatePredictionFeatures(last_historical_row, prediction_date, weather_data) ==
    LET d == Calendar[prediction_date]
        time ==
            [year |-> Num(d.year),
             month |-> Num(d.month),
             day |-> Num(d.day),
             day_of_week |-> Num(d.dayofweek),
             day_of_year |-> Num(d.dayofyear),
             week_of_year |-> Num(d.week),
             quarter |-> Num(d.quarter),
             is_weekend |-> Bool(d.dayofweek >= 5),
             is_monday |-> Bool(d.dayofweek = 0),
             is_friday |-> Bool(d.dayofweek = 4),
             is_sunday |-> Bool(d.dayofweek = 6),
             is_month_start |-> Bool(d.day <= 5),
             is_month_end |-> Bool(d.day >= 25),
             is_month_middle |-> Bool(10 <= d.day /\ d.day <= 20),
             is_holiday |-> Num(d.holiday),
             dow_sin |-> Sin(d.dayofweek, 7),
             dow_cos |-> Cos(d.dayofweek, 7),
             month_sin |-> Sin(d.month, 12),
             month_cos |-> Cos(d.month, 12)]
        lag_features ==
            {col \in DOMAIN last_historical_row :
                \E pattern \in CarryPatterns : Contains(col, pattern)}
        carried ==
            [col \in lag_features |->
                IF last_historical_row[col] # NaN
                THEN last_historical_row[col] ELSE Num(0)]
        weather_features ==
            IF Truthy(weather_data)
            THEN GetWeatherImpactFeatures(weather_data)
            ELSE NoColumns
    IN  <<weather_features @@ carried @@ time>>

----------------------------------------------------------------------------
\* Weather service (src/ml_api/services/weather.py).  Temperatures are whole
\* degrees; the Japanese condition texts are written in Latin letters
\* (hare: clear, kumori: cloudy, ame: rain, tokidoki: at times).

\* WeatherAPIService._generate_average_forecast, from the month of the date
GenerateAverageForecast(month) ==
    IF month \in {12, 1, 2}
    THEN [condition |-> "kumori", temp_max |-> 10, temp_min |-> 2,
          precipitation |-> 30, humidity |-> 60, wind_speed |-> 15]
    ELSE IF month \in {3, 4, 5}
    THEN [condition |-> "hare tokidoki kumori", temp_max |-> 20,
          temp_min |-> 12, precipitation |-> 40, humidity |-> 65,
          wind_speed |-> 12]
    ELSE IF month \in {6, 7, 8}
    THEN [condition |-> IF month = 6 THEN "kumori tokidoki ame" ELSE "hare",
          temp_max |-> IF month \in {7, 8} THEN 30 ELSE 25,
          temp_min |-> IF month \in {7, 8} THEN 22 ELSE 18,
          precipitation |-> IF month = 6 THEN 60 ELSE 35,
          humidity |-> 75, wind_speed |-> 10]
    ELSE [condition |-> "hare", temp_max |-> 22, temp_min |-> 14,
          precipitation |-> 35, humidity |-> 65, wind_speed |-> 12]

\* WeatherAPIService.fetch_forecast. days_ahead is (target_date - today).days
\* as the method computes it; api is what the HTTP request and the reading of
\* its JSON come to: a forecast day, or an exception.
FetchForecast(month, day, days_ahead, api) ==
    IF days_ahead < 1 \/ days_ahead > 14
    THEN GenerateAverageForecast(month)
    ELSE IF api.tag = "ok"
    THEN [condition |-> api.day.condition,
          temp_max |-> api.day.maxtemp_c,
          temp_min |-> api.day.mintemp_c,
          precipitation |-> api.day.daily_chance_of_rain,
          humidity |-> api.day.avghumidity,
          wind_speed |-> api.day.maxwind_kph,
          uv_index |-> api.day.uv]
    ELSE GenerateAverageForecast(month)

\* The demonstration forecast of get_weather_forecast (lines 146-166)
DemoForecast(month, day) ==
    LET weather_conditions ==
            <<"hare", "kumori", "hare tokidoki kumori", "kumori tokidoki hare">>
        weather_index == (day + month) % Len(weather_conditions)
        base_temp == 15 + (month - 6) * 2
        temp_variation == (day % 7) - 3
    IN  [condition |-> weather_conditions[weather_index + 1],
         temp_max |-> base_temp + 8 + temp_variation,
         temp_min |-> base_temp - 2 + temp_variation,
         precipitation |-> (day * 3 + month * 5) % 60,
         humidity |-> 60 + (day % 20),
         wind_speed |-> 5 + (day % 10)]

\* get_weather_forecast. configured: WEATHER_API_KEY is set, so that
\* weather_service is an instance and not None.
GetWeatherForecast(configured, month, day, days_ahead, api) ==
    IF configured
    THEN FetchForecast(month, day, days_ahead, api)
    ELSE DemoForecast(month, day)

----------------------------------------------------------------------------
\* train_and_predict (src/ml_api/models/lightgbm_model.py 240-364)

\* The columns create_features adds, in the order it adds them
CreatedColumns ==
    LET TargetSuffixes ==
            <<"_ma7", "_ma14", "_ma28", "_std7", "_max7", "_min7", "_lag1",
              "_lag7", "_lag14", "_lag28", "_diff1", "_diff7", "_pct_change7",
              "_pct_change14", "_wow_growth", "_trend_7d", "_trend_14d">>
        TargetColumns(col) ==
            [i \in 1..Len(TargetSuffixes) |-> col \o TargetSuffixes[i]]
    IN  <<"year", "month", "day", "day_of_week", "day_of_year",
          "week_of_year", "quarter", "is_weekend", "is_monday", "is_friday",
          "is_sunday", "is_month_start", "is_month_end", "is_month_middle",
          "is_holiday", "is_day_before_holiday", "is_day_after_holiday">>
        \o TargetColumns(TargetCols[1])
        \o TargetColumns(TargetCols[2])
        \o <<"avg_spend_per_customer", "avg_spend_ma7">>
        \o [i \in 1..Len(TargetCols) |-> TargetCols[i] \o "_dow_avg"]
        \o <<"dow_sin", "dow_cos", "month_sin", "month_cos">>

\* df.columns of the table create_features makes of a table with the columns
\* input_columns: a column that exists keeps its place, a new one is appended
ColumnsAfter(input_columns) ==
    input_columns
    \o SelectSeq(CreatedColumns, LAMBDA c : c \notin ToSet(input_columns))

\* The table as train reads it: the column labels and the rows
AsTable(df, columns) ==
    [columns |-> columns,
     rows |-> [i \in 1..Len(df["date"]) |-> [c \in DOMAIN df |-> df[c][i]]]]

\* prediction_features of train_and_predict (lines 277-320); d: the calendar
\* fields of prediction_date
PredictionFeatures(last_row, d, weather_forecast) ==
    LET weather_features == GetWeatherImpactFeatures(weather_forecast)
        \* last_row.get(key, 0)
        GetOr0(dict, key) ==
            IF key \in DOMAIN dict THEN dict[key] ELSE Num(0)
    IN  [weather_code |-> weather_features.weather_code,
         temp_avg |-> weather_features.temp_avg,
         temp_range |-> weather_features.temp_range,
         precipitation |-> Num(weather_forecast.precipitation),
         is_rainy |-> weather_features.is_rainy,
         is_hot |-> weather_features.is_hot,
         is_cold |-> weather_features.is_cold,
         comfort_index |-> weather_features.comfort_index]
        @@ [day_of_week |-> Num(d.dayofweek),
            is_weekend |-> Bool(d.dayofweek >= 5),
            is_monday |-> Bool(d.dayofweek = 0),
            is_friday |-> Bool(d.dayofweek = 4),
            month |-> Num(d.month),
            is_month_start |-> Bool(d.day <= 5),
            is_month_end |-> Bool(d.day >= 25),
            visitor_ma7 |-> GetOr0(last_row, "visitor_ma7"),
            visitor_ma14 |-> GetOr0(last_row, "visitor_ma14"),
            visitor_ma28 |-> GetOr0(last_row, "visitor_ma28"),
            sales_ma7 |-> GetOr0(last_row, "sales_ma7"),
            sales_ma14 |-> GetOr0(last_row, "sales_ma14"),
            sales_ma28 |-> GetOr0(last_row, "sales_ma28"),
            visitor_lag1 |-> GetOr0(last_row, "visitor_count"),
            visitor_lag7 |-> GetOr0(last_row, "visitor_lag7"),
            sales_lag1 |-> GetOr0(last_row, "sales_amount"),
            sales_lag7 |-> GetOr0(last_row, "sales_lag7"),
            visitor_trend_7d |-> GetOr0(last_row, "visitor_trend_7d"),
            sales_trend_7d |-> GetOr0(last_row, "sales_trend_7d"),
            is_holiday |-> Bool(FALSE)]

\* train_and_predict from the point where the awaited create_features has
\* returned df_features (lines 268-364). input_columns: historical_data.columns;
\* date: prediction_date; fit and raw: what LightGBM does in train and the
\* two estimates it answers in predict. Yields what the call returns or raises, X_pred, the row handed
\* to the models, and last_row, the row the carried values are read from.
\* (model_metrics of the result: the MAPE entries are left
\* out; top_features are the five columns of largest gain, here the first
\* five pinned ones.)
TrainAndPredict(df_features, input_columns, weather_forecast, date, fit, raw) ==
    LET trained_ == Train(NewPredictor,
                          AsTable(df_features, ColumnsAfter(input_columns)),
                          fit)
        model == trained_.self
        metrics == trained_.ret
        n == Len(df_features["date"])
        last_row == [c \in DOMAIN df_features |-> df_features[c][n]]
        prediction_features ==
            PredictionFeatures(last_row, Calendar[date],
                               weather_forecast)
        X_pred == FillMissingColumns(prediction_features, model.feature_columns)
        got == Predict(model, X_pred, 90, raw[1], raw[2])
        Values(r) == [value |-> r.value,
                      confidence_lower |-> r.confidence_lower,
                      confidence_upper |-> r.confidence_upper]
    IN  IF IsRaised(metrics)
        THEN [ret |-> metrics, X_pred |-> None, last_row |-> None]
        ELSE IF IsRaised(got.ret)
        THEN [ret |-> got.ret, X_pred |-> None, last_row |-> last_row]
        ELSE [ret |-> [predictions |->
                          [visitor_count |-> Values(got.ret.visitor_result),
                           sales_amount |-> Values(got.ret.sales_result)],
                       model_version |-> "v1.0.0-lightgbm",
                       model_metrics |->
                          [training_samples |-> metrics.training_samples,
                           top_features |->
                              SubSeq(model.feature_columns, 1, 5)]],
              X_pred |-> got.X_pred, last_row |-> last_row]

----------------------------------------------------------------------------
Init ==
    /\ cache = EmptyCache
    /\ now = StartNow
    /\ req = [r \in Reqs |-> IdleReq]
    /\ ret = Called("none", <<>>, None, 0)
    /\ lastSet = [k \in AllKeys |-> None]
    /\ stale = {}
    /\ args = None
    /\ predictor = NewPredictor
    /\ trained = FALSE

\* The application: concurrent prediction requests, /retrain, the clock, and
\* model_cache.set called on the shared cache with the default TTL.
Next ==
    \/ \E r \in Reqs, u \in Users, d \in DateInputs, t2 \in LaterReads(now) :
          Begin(r, u, d, t2)
    \/ \E r \in Reqs, h \in {Raised} \cup {[rows |-> n] : n \in HistoryRows} :
          HistoryDone(r, h)
    \/ \E r \in Reqs, w \in Weathers : WeatherDone(r, w)
    \/ \E r \in Reqs, o \in TrainOutcomes(MinHistoryRows),
          t2 \in LaterReads(now) : TrainDone(r, o, t2)
    \/ \E u \in Users : Retrain(u)
    \/ \E k \in AppKeys, v \in CachedValues, t2 \in LaterReads(now) :
          PutCall(k, v, t2)
    \/ Tick

Spec == Init /\ [][Next]_vars

\* The ModelCache class under arbitrary calls of its methods
CacheNext ==
    \/ \E k \in Keys, v \in CachedValues, ttl \in Ttls,
          t2 \in LaterReads(now) : SetCall(k, v, ttl, t2)
    \/ \E k \in Keys : GetCall(k)
    \/ \E p \in Prefixes : ClearUserCall(p)
    \/ ClearAllCall
    \/ GetStatsCall
    \/ CleanupExpiredCall
    \/ Tick

CacheSpec == Init /\ [][CacheNext]_vars

----------------------------------------------------------------------------
\* Calls on a LightGBMPredictor instance

\* Column layouts of the tables handed to train
TrainColumnSets ==
    {<<"date", "user_id", "day_of_week", "visitor_count_lag1",
       "visitor_count", "sales_amount">>,
     <<"date", "day_of_week", "visitor_count", "sales_amount">>}

TrainSizes == (MinCleanRows - 1)..(MinCleanRows + MaxExtraRows)

\* Where a table of n rows holds NaN: <<row, column>> pairs
NanChoices(n) ==
    {{}, {<<1, "day_of_week">>}, {<<2, "date">>},
     {<<1, "day_of_week">>, <<n, "sales_amount">>}}

\* A table of n rows, in date order, row i holding i in every column but the
\* cells of nan
TrainTable(cols, n, nan) ==
    [columns |-> cols,
     rows |-> [i \in 1..n |->
                 [c \in ToSet(cols) |->
                     IF <<i, c>> \in nan THEN NaN ELSE Num(i)]]]

\* What LightGBM may do with the data: RMSEs in hundredths
Fits ==
    {[visitor_ok |-> TRUE, sales_ok |-> TRUE,
      visitor_rmse |-> 0, sales_rmse |-> 0],
     [visitor_ok |-> TRUE, sales_ok |-> TRUE,
      visitor_rmse |-> 150, sales_rmse |-> 150],
     [visitor_ok |-> FALSE, sales_ok |-> TRUE,
      visitor_rmse |-> 0, sales_rmse |-> 0],
     [visitor_ok |-> TRUE, sales_ok |-> FALSE,
      visitor_rmse |-> 0, sales_rmse |-> 0]}

\* Rows handed to predict: all columns of the first layout; one lacking
\* visitor_count_lag1 and holding a column no layout has; one with both
PredictRows ==
    {[day_of_week |-> Num(2), visitor_count_lag1 |-> Num(7)],
     [day_of_week |-> Num(2), temp_avg |-> Num(18)],
     [day_of_week |-> Num(2), visitor_count_lag1 |-> Num(7),
      temp_avg |-> Num(18)]}

\* Raw answers of the two models, in hundredths: <<visitors, sales>>
RawEstimates ==
    {<<-250, -40>>, <<-40, 70>>, <<0, 0>>, <<70, -250>>, <<320, 320>>}

ConfidenceLevels == {90, 95}

TrainCall(cols, n, nan, fit) ==
    /\ LET got == Train(predictor, TrainTable(cols, n, nan), fit)
       IN  /\ predictor' = got.self
           /\ ret' = Called("train", [cols |-> cols, n |-> n, nan |-> nan],
                            got.ret, 0)
           /\ trained' = (trained \/ ~IsRaised(got.ret))
    /\ UNCHANGED <<cache, now, req, lastSet, stale, args>>

\* The fourth field of ret is the row handed to the models
PredictCall(X, confidence_level, raw) ==
    /\ LET got == Predict(predictor, X, confidence_level, raw[1], raw[2])
       IN  ret' = Called("predict", X, got.ret, got.X_pred)
    /\ UNCHANGED <<cache, now, req, lastSet, stale, args, predictor, trained>>

\* train_and_predict, lightgbm_model.py 324-330, on an instance whose train
\* returned: fill the missing columns, then predict
FilledPredictCall(X, raw) ==
    /\ predictor.visitor_model # None
    /\ predictor.sales_model # None
    /\ LET X_pred == FillMissingColumns(X, predictor.feature_columns)
           got == Predict(predictor, X_pred, 90, raw[1], raw[2])
       IN  ret' = Called("train_and_predict", X, got.ret, got.X_pred)
    /\ UNCHANGED <<cache, now, req, lastSet, stale, args, predictor, trained>>

PredictorNext ==
    \/ \E cols \in TrainColumnSets, n \in TrainSizes, fit \in Fits :
          \E nan \in NanChoices(n) : TrainCall(cols, n, nan, fit)
    \/ \E X \in PredictRows, cl \in ConfidenceLevels, raw \in RawEstimates :
          PredictCall(X, cl, raw)
    \/ \E X \in PredictRows, raw \in RawEstimates : FilledPredictCall(X, raw)

PredictorSpec == Init /\ [][PredictorNext]_vars

----------------------------------------------------------------------------
\* Calls of the feature builders on bounded inputs

\* (visitor_count, sales_amount) of one day
TargetPairs == {<<0, 0>>, <<2, 10>>}

\* Dates of a history: every day from day 1, or day 2 missing
DateLayouts == {"daily", "gap"}

\* Row order of the input table
Orders == {"asc", "desc"}

HistoryTable(n, layout, order, pairs) ==
    LET day(k) == IF layout = "gap" /\ k > 1 THEN k + 1 ELSE k
        pos(i) == IF order = "asc" THEN i ELSE n + 1 - i
    IN  [date |-> [i \in 1..n |-> Timestamp(day(pos(i)))],
         visitor_count |-> [i \in 1..n |-> Num(pairs[pos(i)][1])],
         sales_amount |-> [i \in 1..n |-> Num(pairs[pos(i)][2])]]

HistoryTables ==
    UNION {{HistoryTable(n, layout, order, pairs) :
                layout \in DateLayouts, order \in Orders,
                pairs \in [1..n -> TargetPairs]} : n \in 1..MaxRows}

\* Last rows of a feature table handed to create_prediction_features
LastRows ==
    {[date |-> Timestamp(3), visitor_count |-> Num(2), year |-> Num(2024),
      is_weekend |-> Num(1),
      visitor_count_ma7 |-> Frac(8, 7), visitor_count_std7 |-> NaN,
      visitor_count_max7 |-> Num(2), visitor_count_min7 |-> Num(0),
      visitor_count_lag1 |-> Num(0), visitor_count_trend_7d |-> Frac(1, 4),
      visitor_count_dow_avg |-> NaN, visitor_count_pct_change7 |-> Inf(1),
      visitor_count_diff1 |-> Num(2)],
     [date |-> Timestamp(3), visitor_count |-> Num(0), year |-> Num(2024),
      visitor_count_ma7 |-> Num(0), visitor_count_max7 |-> Num(0),
      visitor_count_lag1 |-> NaN],
     [date |-> Timestamp(3), sales_amount |-> Num(10),
      sales_amount_lag7 |-> Num(10), sales_amount_std7 |-> Sqrt(Frac(50, 3)),
      avg_spend_ma7 |-> Frac(1000000, 200001)]}

\* Largest step between two consecutive values of a series given to
\* calculate_trend
MaxStep == 2

WeatherData ==
    {None} \cup Weathers
    \cup {[condition |-> "light rain", temp_max |-> 31, temp_min |-> 4,
           precipitation |-> 80, humidity |-> 90]}

\* The calls. The series of calculate_trend are those of a full 7-day window:
\* they start at 0 and move by at most MaxStep a day
FeatureInputs ==
    LET RECURSIVE Walk(_, _)
        Walk(steps, i) ==
            IF i = 0 THEN <<Num(0)>>
            ELSE LET before == Walk(steps, i - 1)
                 IN  Append(before, Num(before[i].n + steps[i]))
        TrendSeries == {Walk(steps, 6) : steps \in [1..6 -> -MaxStep..MaxStep]}
    IN
    {[op |-> "create_features", df |-> df,
      include_weather |-> include_weather] :
        df \in HistoryTables, include_weather \in BOOLEAN}
    \cup {[op |-> "create_prediction_features", last_historical_row |-> row,
           prediction_date |-> prediction_date,
           weather_data |-> weather_data] :
             row \in LastRows, prediction_date \in 1..12,
             weather_data \in WeatherData}
    \cup {[op |-> "calculate_trend", series |-> series, window |-> 7] :
             series \in TrendSeries}

FeatureInit ==
    /\ cache = EmptyCache
    /\ now = StartNow
    /\ req = [r \in Reqs |-> IdleReq]
    /\ ret = Called("none", <<>>, None, 0)
    /\ lastSet = [k \in AllKeys |-> None]
    /\ stale = {}
    /\ args \in FeatureInputs
    /\ predictor = NewPredictor
    /\ trained = FALSE

\* The fourth field of ret is the row count create_features prints
CreateFeaturesCall ==
    /\ ret.op = "none"
    /\ args.op = "create_features"
    /\ ret' = Called("create_features", args,
                     CreateFeatures(args.df, args.include_weather),
                     Len(args.df["date"]))
    /\ UNCHANGED <<cache, now, req, lastSet, stale, args, predictor, trained>>

CreatePredictionFeaturesCall ==
    /\ ret.op = "none"
    /\ args.op = "create_prediction_features"
    /\ ret' = Called("create_prediction_features", args,
                     CreatePredictionFeatures(args.last_historical_row,
                                              args.prediction_date,
                                              args.weather_data),
                     0)
    /\ UNCHANGED <<cache, now, req, lastSet, stale, args, predictor, trained>>

CalculateTrendCall ==
    /\ ret.op = "none"
    /\ args.op = "calculate_trend"
    /\ ret' = Called("calculate_trend", args,
                     CalculateTrend(args.series, args.window), 0)
    /\ UNCHANGED <<cache, now, req, lastSet, stale, args, predictor, trained>>

FeatureNext ==
    \/ CreateFeaturesCall
    \/ CreatePredictionFeaturesCall
    \/ CalculateTrendCall

FeatureSpec == FeatureInit /\ [][FeatureNext]_vars

----------------------------------------------------------------------------
\* Calls of get_weather_forecast on bounded inputs

\* What the request to the weather API comes to
\* The calls: some days of the month, distances in days of the requested
\* date from today (14 is the end of the forecast range), and what the
\* request to the weather API does
WeatherInit ==
    /\ cache = EmptyCache
    /\ now = StartNow
    /\ req = [r \in Reqs |-> IdleReq]
    /\ ret = Called("none", <<>>, None, 0)
    /\ lastSet = [k \in AllKeys |-> None]
    /\ stale = {}
    /\ args \in
           [configured : BOOLEAN, month : 1..12, day : {1, 6, 15, 20, 28},
            days_ahead : {0, 1, 14, 15, 45},
            api : {[tag |-> "ok",
                    day |-> [condition |-> "ame", maxtemp_c |-> 18, mintemp_c |-> 9,
                             daily_chance_of_rain |-> 80, avghumidity |-> 85,
                             maxwind_kph |-> 20, uv |-> 2]],
                   [tag |-> "RequestException"],
                   [tag |-> "KeyError"]}]
    /\ predictor = NewPredictor
    /\ trained = FALSE

GetWeatherForecastCall ==
    /\ ret.op = "none"
    /\ ret' = Called("get_weather_forecast", args,
                     GetWeatherForecast(args.configured, args.month, args.day,
                                        args.days_ahead, args.api),
                     0)
    /\ UNCHANGED <<cache, now, req, lastSet, stale, args, predictor, trained>>

WeatherNext == GetWeatherForecastCall

WeatherSpec == WeatherInit /\ [][WeatherNext]_vars

----------------------------------------------------------------------------
\* Calls of train_and_predict on histories that passed the row check

\* historical_data.columns, as get_user_historical_data selects them
HistoryColumns ==
    <<"date", "visitor_count", "sales_amount", "day_of_week", "is_holiday",
      "avg_per_customer">>

\* A history of n days in date order (both paths of get_user_historical_data
\* sort by date). pattern: the (visitor_count, sales_amount) of three
\* consecutive days, repeated over the history. nulls: avg_per_customer is
\* missing in the first and in the
\* last row.
AggregatedHistory(n, layout, pattern, nulls) ==
    LET day(k) == IF layout = "gap" /\ k > 1 THEN k + 1 ELSE k
        pair(i) == pattern[((i - 1) % 3) + 1]
    IN  [date |-> [i \in 1..n |-> Timestamp(day(i))],
         visitor_count |-> [i \in 1..n |-> Num(pair(i)[1])],
         sales_amount |-> [i \in 1..n |-> Num(pair(i)[2])],
         day_of_week |-> [i \in 1..n |-> Num(Calendar[day(i)].dayofweek)],
         is_holiday |-> [i \in 1..n |-> Bool(FALSE)],
         avg_per_customer |->
             [i \in 1..n |->
                 IF nulls /\ i \in {1, n} THEN NaN
                 ELSE IF pair(i)[1] > 0
                      THEN Frac(pair(i)[2], pair(i)[1]) ELSE Num(0)]]

\* The calls: histories that passed the 30-row check, the prediction date
\* 2025-01-29, and the raw answers of the two models for the prediction row,
\* in hundredths
MissPathInit ==
    /\ cache = EmptyCache
    /\ now = StartNow
    /\ req = [r \in Reqs |-> IdleReq]
    /\ ret = Called("none", <<>>, None, 0)
    /\ lastSet = [k \in AllKeys |-> None]
    /\ stale = {}
    /\ args \in
           {[historical_data |-> AggregatedHistory(n, layout, pattern, nulls),
             weather_forecast |-> w, prediction_date |-> Len(Calendar),
             fit |-> fit, raw |-> <<320, 1570>>] :
               n \in MinHistoryRows..(MinHistoryRows + MaxExtraRows),
               layout \in DateLayouts, pattern \in [1..3 -> TargetPairs],
               nulls \in BOOLEAN, w \in Weathers, fit \in Fits}
    /\ predictor = NewPredictor
    /\ trained = FALSE

\* train_and_predict up to its await (lines 264-266): create_features
\* returns df_features, or raises and the call re-raises
AwaitCreateFeatures ==
    /\ ret.op = "none"
    /\ ret' = Called("create_features", args,
                     CreateFeatures(args.historical_data, FALSE), 0)
    /\ UNCHANGED <<cache, now, req, lastSet, stale, args, predictor, trained>>

\* The rest of train_and_predict. The fourth field of ret holds the row
\* handed to the models and the last row of df_features
TrainAndPredictCall ==
    /\ ret.op = "create_features"
    /\ \E got \in {TrainAndPredict(ret.value, HistoryColumns,
                                    args.weather_forecast,
                                    args.prediction_date,
                                    args.fit, args.raw)} :
           ret' = Called("train_and_predict", args, got.ret,
                         [X_pred |-> got.X_pred, last_row |-> got.last_row])
    /\ UNCHANGED <<cache, now, req, lastSet, stale, args, predictor, trained>>

MissPathNext == AwaitCreateFeatures \/ TrainAndPredictCall

MissPathSpec == MissPathInit /\ [][MissPathNext]_vars

----------------------------------------------------------------------------
\* Claims

KeyOf(rq) == CacheKey(rq.user_id, rq.prediction_date)

\* C1: when the lookup at main.py 180 finds an unexpired entry under the
\* request's key, the request ends at once with that cached value as its
\* response: it does not go on to train_and_predict and the cache is not
\* changed.
C1_CacheHitReturnsCached ==
    [][\A r \in Reqs, w \in Weathers :
        (/\ WeatherDone(r, w)
         /\ KeyOf(req[r]) \in DOMAIN cache
         /\ now < cache[KeyOf(req[r])].expires_at)
        => /\ req'[r].pc = "done"
           /\ req'[r].response = Ok(cache[KeyOf(req[r])].value)
           /\ cache' = cache]_vars

\* C1 witness: a request was answered 200 from an entry that is still cached
C1_Witness ==
    \E r \in Reqs, k \in DOMAIN cache :
        /\ req[r].pc = "done"
        /\ req[r].response = Ok(cache[k].value)
        /\ now < cache[k].expires_at

\* C2: get(key) returns a value exactly when an entry for key exists and the
\* clock is strictly before its expiry, and then it is the entry's value; an
\* entry set with ttl 0 (its expiry is not after its creation time) is never
\* returned.
C2_GetIffUnexpired ==
    [][\A k \in Keys :
        GetCall(k)
        => /\ (ret'.value # None)
               <=> (k \in DOMAIN cache /\ now < cache[k].expires_at)
           /\ (k \in DOMAIN cache /\ now < cache[k].expires_at)
               => ret'.value = cache[k].value
           /\ (k \in DOMAIN cache /\ cache[k].expires_at <= cache[k].created_at)
               => ret'.value = None]_vars

\* C2 witness: get has just refused an entry whose expiry is the present
\* instant, while an unexpired entry is in the cache
C2_Witness ==
    /\ ret.op = "get"
    /\ ret.value = None
    /\ lastSet[ret.arg] # None
    /\ ret.arg \notin DOMAIN cache
    /\ \E k \in DOMAIN cache : now < cache[k].expires_at

\* C3: a get(k) that returns a value returns the value passed to the most
\* recent set(k, ...); a set overwrites value and expiry whatever was there;
\* a 6-hour entry read within its 6 hours comes back unchanged.
C3_GetReturnsLastSet ==
    [][/\ \A k \in Keys :
            (GetCall(k) /\ ret'.value # None) => ret'.value = lastSet[k]
       /\ \A k \in Keys, v \in CachedValues, ttl \in Ttls,
             t2 \in LaterReads(now) :
            SetCall(k, v, ttl, t2)
            => /\ cache'[k].value = v
               /\ cache'[k].expires_at = now + ttl
       /\ \A k \in Keys :
            (/\ GetCall(k)
             /\ k \in DOMAIN cache
             /\ cache[k].expires_at - DefaultTtlHours <= now
             /\ now < cache[k].expires_at)
            => ret'.value = lastSet[k]]_vars

\* C3 witness: a get returned the second value set under a key that is read
\* later than it was set
C3_Witness ==
    /\ ret.op = "get"
    /\ ret.value # None
    /\ ret.arg \in DOMAIN cache
    /\ cache[ret.arg].created_at < now
    /\ cache[ret.arg].created_at > StartNow

\* C4: clear_user_cache(prefix) removes every entry, expired or not, whose
\* key starts with prefix, and leaves every other entry as it was.
C4_ClearUserFrame ==
    [][\A p \in Prefixes :
        ClearUserCall(p)
        => /\ \A k \in DOMAIN cache' : ~StartsWith(k, p)
           /\ \A k \in DOMAIN cache :
                ~StartsWith(k, p) => (k \in DOMAIN cache' /\ cache'[k] = cache[k])
           /\ DOMAIN cache' \subseteq DOMAIN cache]_vars

\* C4 witness: a clear_user_cache call removed entries and left others
C4_Witness ==
    /\ ret.op = "clear_user_cache"
    /\ ret.printed > 0
    /\ cache # EmptyCache

\* The keys of user u under the convention {user_id}_{date}
Owns(u, k) ==
    \E d \in 0..(MaxHorizonDays + 2) : k = CacheKey(u, d * HoursPerDay)

\* C5: POST /retrain for a user who has cached predictions removes all of
\* that user's entries and leaves every other user's entry in place, also
\* when one user id is a prefix of the other.
C5_RetrainOnlyOwnEntries ==
    [][\A u \in Users :
        (Retrain(u) /\ \E k \in DOMAIN cache : Owns(u, k))
        => /\ \A k \in DOMAIN cache : Owns(u, k) => k \notin DOMAIN cache'
           /\ \A k \in DOMAIN cache :
                ~Owns(u, k) => (k \in DOMAIN cache' /\ cache'[k] = cache[k])
      ]_vars

C7_MissStoresResponse ==
    [][\A r \in Reqs, o \in TrainOutcomes(MinHistoryRows),
         t2 \in LaterReads(now) :
        (TrainDone(r, o, t2) /\ o # Raised)
        => /\ req'[r].response.status = 200
           /\ KeyOf(req[r]) \in DOMAIN cache'
           /\ cache'[KeyOf(req[r])].value = req'[r].response.body
           /\ cache'[KeyOf(req[r])].expires_at = now + DefaultTtlHours]_vars

\* C8: a step of predict_next_day that ends the request with an error leaves
\* the cache as it was, and the lookup step creates or overwrites no entry
\* (it can only drop the expired entry it found).
C8_FailureLeavesCache ==
    [][\A r \in Reqs :
        /\ (/\ req'[r] # req[r]
            /\ req'[r].pc = "done"
            /\ req'[r].response.status # 200)
           => cache' = cache
        /\ (req'[r] # req[r] /\ req[r].pc = "weather")
           => \A k \in DOMAIN cache' :
                 k \in DOMAIN cache /\ cache'[k] = cache[k]]_vars

\* C8 witness: a request failed in response assembly while the cache holds
\* an entry
C8_Witness ==
    \E r \in Reqs :
        /\ req[r].pc = "done"
        /\ req[r].response = HttpError(500, <<"Prediction failed", "ValidationError">>)
        /\ cache # EmptyCache

\* C9: of two requests for the same key that are both past a cache miss and
\* training, each one whose training returns writes the cache entry of the
\* key.
C9_ConcurrentMissesBothWrite ==
    [][\A r1, r2 \in Reqs, o \in TrainOutcomes(MinHistoryRows),
         t2 \in LaterReads(now) :
        (/\ r1 # r2
         /\ TrainDone(r1, o, t2) /\ o # Raised
         /\ req[r2].pc = "train"
         /\ KeyOf(req[r1]) = KeyOf(req[r2]))
        => /\ KeyOf(req[r1]) \in DOMAIN cache'
           /\ cache'[KeyOf(req[r1])].expires_at = now + DefaultTtlHours]_vars

\* C10: a request with an explicit date before today + 1 day or after
\* today + 14 days (today as the check reads it) ends at once with 400
\* InvalidDate, before any fetch, cache access or training, and an explicit
\* date inside the horizon goes on to the history fetch; a request without
\* a date resolves to tomorrow and goes on to the history fetch.
C10_DateHorizon ==
    [][\A r \in Reqs, u \in Users, t2 \in LaterReads(now) :
        /\ \A d \in 0..(MaxHorizonDays + 2) :
             Begin(r, u, DateString(d), t2)
             => IF d < DateOf(t2) + MinHorizonDays
                   \/ d > DateOf(t2) + MaxHorizonDays
                THEN /\ req'[r].pc = "done"
                     /\ req'[r].response = HttpError(400, <<"InvalidDate">>)
                     /\ cache' = cache
                ELSE /\ req'[r].pc = "history"
                     /\ DateOf(req'[r].prediction_date) = d
        /\ Begin(r, u, None, t2)
             => /\ req'[r].pc = "history"
                /\ DateOf(req'[r].prediction_date) = DateOf(now) + 1]_vars

\* C11: a request whose fetched history has fewer than 30 rows, zero rows
\* included, ends at that step with HTTP 400 (the data-shortage refusal, not
\* the 500 of the catch-all handler); it never reaches the weather fetch or
\* training and the cache is left as it was.
C11_ShortHistoryRefused ==
    [][\A r \in Reqs, n \in HistoryRows :
        (HistoryDone(r, [rows |-> n]) /\ n < MinHistoryRows)
        => /\ req'[r].pc = "done"
           /\ req'[r].response.status = 400
           /\ req'[r].response.body.detail
                \in {<<"NoData">>, <<"InsufficientData">>}
           /\ cache' = cache]_vars

\* C11 witness: one request was refused for an empty history and another for
\* a short one, while the cache holds an entry
C11_Witness ==
    /\ \E r \in Reqs : req[r].response = HttpError(400, <<"NoData">>)
    /\ \E r \in Reqs : req[r].response = HttpError(400, <<"InsufficientData">>)
    /\ cache # EmptyCache

\* C12: every result predict returns has, for visitors and for sales,
\* 0 <= confidence_lower <= value <= confidence_upper, whatever the raw
\* estimates (negative ones included) and the validation RMSEs.
C12_BoundsOrdered ==
    (ret.op \in {"predict", "train_and_predict"} /\ ~IsRaised(ret.value))
    => \A r \in {ret.value.visitor_result, ret.value.sales_result} :
          /\ 0 <= r.confidence_lower
          /\ r.confidence_lower <= r.value
          /\ r.value <= r.confidence_upper

\* C12 witness: a negative visitor estimate came back as 0 with a positive
\* upper bound, next to a positive sales estimate whose lower bound is 0
C12_Witness ==
    /\ ret.op = "predict"
    /\ ~IsRaised(ret.value)
    /\ ret.value.visitor_result.value = 0
    /\ ret.value.visitor_result.confidence_upper > 0
    /\ ret.value.sales_result.value > 0
    /\ ret.value.sales_result.confidence_lower = 0

\* The rows of the table described by a that hold NaN in a feature or target
\* column
CriticalNaNRows(a) ==
    {i \in 1..a.n :
        \E c \in ToSet(a.cols) \ {"date", "user_id", "id"} : <<i, c>> \in a.nan}

\* C13: train raises ValueError 'Insufficient clean data' and leaves the
\* models as they were when fewer than 30 rows are free of NaN in the feature
\* and target columns; with 30 or more such rows it does not raise it and
\* goes on to fit.
C13_TrainThreshold ==
    [][ret'.op = "train"
       => LET clean == ret'.arg.n - Cardinality(CriticalNaNRows(ret'.arg))
          IN  IF clean < 30
              THEN /\ ret'.value = Raise("ValueError",
                                         <<"Insufficient clean data", clean>>)
                   /\ predictor'.visitor_model = predictor.visitor_model
                   /\ predictor'.sales_model = predictor.sales_model
              ELSE \/ ~IsRaised(ret'.value)
                   \/ ret'.value.exc = "LightGBMError"]_vars

\* C13 witness: a table of at least 30 rows was refused for having 29 clean
\* rows
C13_Witness ==
    /\ ret.op = "train"
    /\ ret.arg.n >= 30
    /\ ret.value = Raise("ValueError", <<"Insufficient clean data", 29>>)

\* C14: a train call that returns has split the n clean rows, in their
\* order, into a non-empty front part it fitted on and a non-empty rest it
\* validated on, of ceil(n/5) rows: the two sample counts add up to n and
\* every validation row comes after every training row.
C14_ChronologicalSplit ==
    [][(ret'.op = "train" /\ ~IsRaised(ret'.value))
       => LET clean == (1..ret'.arg.n) \ CriticalNaNRows(ret'.arg)
              m == ret'.value
              b == predictor'.visitor_model
          IN  /\ m.training_samples + m.validation_samples = Cardinality(clean)
              /\ m.training_samples > 0
              /\ m.validation_samples > 0
              /\ 5 * m.validation_samples >= Cardinality(clean)
              /\ 5 * m.validation_samples < Cardinality(clean) + 5
              /\ predictor'.sales_model = b
              /\ Len(b.fitted_on) = m.training_samples
              /\ Len(b.validated_on) = m.validation_samples
              /\ ToSet(b.fitted_on) \cup ToSet(b.validated_on) = clean
              /\ \A i \in ToSet(b.fitted_on), j \in ToSet(b.validated_on) :
                    i < j]_vars

\* C14 witness: a train call returned on exactly 30 clean rows of a longer
\* table, 24 fitted and 6 validated
C14_Witness ==
    /\ ret.op = "train"
    /\ ~IsRaised(ret.value)
    /\ ret.arg.n > 30
    /\ ret.value.training_samples = 24
    /\ ret.value.validation_samples = 6

\* C15: as long as no train call on the instance has returned, every predict
\* call raises ValueError 'Models not trained', also after train calls that
\* raised.
C15_NotTrained ==
    (ret.op = "predict" /\ ~trained)
    => ret.value = Raise("ValueError", <<"Models not trained">>)

\* C15 witness: predict raised on an instance whose only train calls raised
\* (one of them after fitting the visitor model)
C15_Witness ==
    /\ ret.op = "predict"
    /\ ~trained
    /\ predictor.visitor_model # None
    /\ ret.value = Raise("ValueError", <<"Models not trained">>)

\* C19 as claimed: a predict call on a trained instance does not fail on a
\* pinned column its input row lacks; the row it hands to the models holds
\* the pinned columns in the pinned order, 0 for those the input lacks, and
\* nothing else.
C19_PredictReindexes ==
    [][(ret'.op = "predict" /\ ~Untrained(predictor))
       => LET X == ret'.arg
              fc == predictor.feature_columns
          IN  /\ ~IsRaised(ret'.value)
              /\ ret'.printed =
                   Row([i \in DOMAIN fc |->
                          [col |-> fc[i],
                           v |-> IF fc[i] \in DOMAIN X THEN X[fc[i]]
                                 ELSE Num(0)]])]_vars

\* C19, amended: a predict call on a trained instance hands the models the
\* pinned columns of its input row in the pinned order and nothing else, and
\* raises KeyError when the row lacks a pinned column; the prediction made by
\* train_and_predict, which first adds every missing pinned column with value
\* 0, never fails on a missing column and hands the models 0 there.
C19_PredictSelectsPinned ==
    [][/\ (ret'.op = "predict" /\ ~Untrained(predictor))
          => LET X == ret'.arg
                 fc == predictor.feature_columns
             IN  IF ToSet(fc) \subseteq DOMAIN X
                 THEN /\ ~IsRaised(ret'.value)
                      /\ ret'.printed =
                           Row([i \in DOMAIN fc |->
                                  [col |-> fc[i], v |-> X[fc[i]]]])
                 ELSE ret'.value = Raise("KeyError", <<"not in index">>)
       /\ ret'.op = "train_and_predict"
          => LET X == ret'.arg
                 fc == predictor.feature_columns
             IN  /\ ~IsRaised(ret'.value)
                 /\ ret'.printed =
                      Row([i \in DOMAIN fc |->
                             [col |-> fc[i],
                              v |-> IF fc[i] \in DOMAIN X THEN X[fc[i]]
                                    ELSE Num(0)]])]_vars

\* C19 witness: train_and_predict's prediction went through for a row that
\* lacks a pinned column and holds an unpinned one
C19_Witness ==
    /\ ret.op = "train_and_predict"
    /\ ~IsRaised(ret.value)
    /\ ~(ToSet(predictor.feature_columns) \subseteq DOMAIN ret.arg)
    /\ ~(DOMAIN ret.arg \subseteq ToSet(predictor.feature_columns))

\* C18 as claimed: clear_user_cache returns the number of entries it removed.
C18_ClearReturnsCount ==
    [][\A p \in Prefixes :
        ClearUserCall(p)
        => ret'.value =
             PyInt(Cardinality({k \in DOMAIN cache : StartsWith(k, p)}))]_vars

\* C18, amended: clear_user_cache returns None; the number of entries it
\* removed (0 when no key starts with the user id) is the number in the line
\* it prints.
C18_ClearReturnsNone ==
    [][\A p \in Prefixes :
        ClearUserCall(p)
        => /\ ret'.value = None
           /\ ret'.printed =
                Cardinality({k \in DOMAIN cache : StartsWith(k, p)})
           /\ ret'.printed =
                Cardinality(DOMAIN cache) - Cardinality(DOMAIN cache')]_vars

\* C18 witness: a clear_user_cache call on a cache with entries of other
\* users only returned None and printed 0
C18_Witness ==
    /\ ret.op = "clear_user_cache"
    /\ ret.value = None
    /\ ret.printed = 0
    /\ cache # EmptyCache

\* C16: for every input table with unique dates, in any row order,
\* create_features returns a table with exactly one row per input row, sorted
\* by ascending date, in which no cell is NaN or +/-infinity.
C16_FeatureTableClean ==
    ret.op = "create_features"
    => LET df == ret.value
           n == Len(args.df["date"])
       IN  /\ \A c \in DOMAIN df : Len(df[c]) = n
           /\ \A j \in 1..n :
                 Cardinality({i \in 1..n :
                     \A c \in DOMAIN args.df : df[c][i] = args.df[c][j]}) = 1
           /\ \A i \in 1..(n - 1) : df["date"][i].day < df["date"][i + 1].day
           /\ \A c \in DOMAIN df :
                 \A i \in 1..n : df[c][i].t \notin {"nan", "inf"}

\* C16 witness: create_features returned for a table of MaxRows daily rows
\* given in descending date order whose week-over-week change divides by zero
C16_Witness ==
    /\ ret.op = "create_features"
    /\ Len(args.df["date"]) = MaxRows
    /\ args.df["date"][1].day = MaxRows
    /\ args.df["date"][MaxRows].day = 1
    /\ args.df["visitor_count"][MaxRows] = Num(0)
    /\ args.df["visitor_count"][MaxRows - 7] = Num(2)
    /\ ret.value["date"][1].day = 1

\* C17 as claimed: the {target}_dow_avg of a row of the table returned by
\* create_features is the same when only that row's own target value is
\* changed in the input.
C17_DowAvgIndependent ==
    ret.op = "create_features"
    => \A col \in {"visitor_count", "sales_amount"} :
         \A j \in 1..Len(args.df["date"]) :
           \A v \in {Num(0), Num(2)} :
             LET other == CreateFeatures([args.df EXCEPT ![col][j] = v],
                                         args.include_weather)
                 i == CHOOSE i \in 1..Len(args.df["date"]) :
                         ret.value["date"][i] = args.df["date"][j]
             IN  other[col \o "_dow_avg"][i] = ret.value[col \o "_dow_avg"][i]

\* C20 as claimed: create_prediction_features returns one row in which every
\* rolling mean, std, max, min, lag, trend and dow_avg column of the last
\* historical row appears with that row's value (0 when missing), and the
\* calendar features are those of the prediction date.
C20_CarriesRollingColumns ==
    ret.op = "create_prediction_features"
    => LET row == args.last_historical_row
           d == Calendar[args.prediction_date]
       IN  /\ Len(ret.value) = 1
           /\ \A col \in DOMAIN row :
                 (\E p \in {"_ma7", "_ma14", "_ma28", "_std7", "_max7",
                            "_min7", "_lag", "_trend_", "_dow_avg"} :
                      Contains(col, p))
                 => /\ col \in DOMAIN ret.value[1]
                    /\ ret.value[1][col] =
                         (IF row[col] = NaN THEN Num(0) ELSE row[col])
           /\ ret.value[1].year = Num(d.year)
           /\ ret.value[1].day_of_week = Num(d.dayofweek)
           /\ ret.value[1].is_weekend = Bool(d.dayofweek >= 5)
           /\ ret.value[1].is_month_start = Bool(d.day <= 5)
           /\ ret.value[1].is_holiday = Num(d.holiday)
           /\ ret.value[1].dow_sin = Sin(d.dayofweek, 7)

\* C23: after cleanup_expired the cache holds no entry whose expiry is at or
\* before the sweep time; every entry unexpired at the sweep time is still
\* there, unchanged; the entries removed are exactly those get would have
\* refused to return.
C23_SweepRemovesExpired ==
    [][CleanupExpiredCall
       => /\ \A k \in DOMAIN cache' : ~(cache'[k].expires_at <= now)
          /\ \A k \in DOMAIN cache :
                now < cache[k].expires_at
                => k \in DOMAIN cache' /\ cache'[k] = cache[k]
          /\ DOMAIN cache' \subseteq DOMAIN cache
          /\ (DOMAIN cache) \ (DOMAIN cache')
               = {k \in DOMAIN cache : CacheGet(cache, k, now).ret = None}]_vars

\* C23 witness: a sweep removed an entry and left an unexpired one
C23_Witness ==
    /\ ret.op = "cleanup_expired"
    /\ ret.printed >= 1
    /\ \E k \in DOMAIN cache : now < cache[k].expires_at

\* C24: get_stats reports total_entries = active_entries + expired_entries,
\* total_entries is the number of entries, active_entries the number of keys
\* for which get would return a value at that instant, and the call leaves
\* the cache unchanged.
C24_StatsConsistent ==
    [][GetStatsCall
       => /\ ret'.value.total_entries
               = ret'.value.active_entries + ret'.value.expired_entries
          /\ ret'.value.total_entries = Cardinality(DOMAIN cache)
          /\ ret'.value.active_entries
               = Cardinality({k \in AllKeys :
                                 CacheGet(cache, k, now).ret # None})
          /\ cache' = cache]_vars

\* C24 witness: get_stats counted an active and an expired entry, both still
\* in the cache
C24_Witness ==
    /\ ret.op = "get_stats"
    /\ ret.value.active_entries >= 1
    /\ ret.value.expired_entries >= 1
    /\ Cardinality(DOMAIN cache) = ret.value.total_entries

\* C28: get(key) on an expired entry deletes that entry and nothing else; get
\* on an unexpired or absent key leaves the whole cache unchanged.
C28_GetTouchesOwnKey ==
    [][\A k \in Keys :
        GetCall(k)
        => IF k \in DOMAIN cache /\ ~(now < cache[k].expires_at)
           THEN /\ DOMAIN cache' = (DOMAIN cache) \ {k}
                /\ \A j \in DOMAIN cache' : cache'[j] = cache[j]
           ELSE cache' = cache]_vars

\* C28 witness: a get deleted its expired entry while another expired entry
\* stayed in the cache
C28_Witness ==
    /\ ret.op = "get"
    /\ ret.value = None
    /\ lastSet[ret.arg] # None
    /\ ret.arg \notin DOMAIN cache
    /\ \E k \in DOMAIN cache : cache[k].expires_at <= now

\* C25: a step that ends a prediction request ends it in one of these
\* outcomes, by the step it was at: from the date check, the InvalidDate
\* refusal (400) or the 500 wrapping the date parser's exception; from the
\* history check, a data-shortage refusal (400, not rewrapped) or the 500
\* wrapping the fetch's exception; from the cache lookup, a 200 with a
\* PredictionResponse; from training, a 200 with a PredictionResponse or the
\* 500 wrapping the exception of training or of the response assembly.
C25_OneOutcome ==
    [][\A r \in Reqs :
        (req'[r] # req[r] /\ req'[r].pc = "done")
        => LET was == req[r].pc
               response == req'[r].response
               Wrapped(e) == HttpError(500, <<"Prediction failed", e>>)
               IsResult == /\ response.status = 200
                           /\ response.body.tag = "PredictionResponse"
           IN  /\ was \in {"idle", "done"}
                    => response \in {HttpError(400, <<"InvalidDate">>),
                                     Wrapped("strptime")}
               /\ was = "history"
                    => response \in {HttpError(400, <<"NoData">>),
                                     HttpError(400, <<"InsufficientData">>),
                                     Wrapped("get_user_historical_data")}
               /\ was = "weather" => IsResult
               /\ was = "train"
                    => \/ IsResult
                       \/ response \in {Wrapped("train_and_predict"),
                                        Wrapped("ValidationError")}]_vars

\* C25 witness: one request ended in the 500 that wraps the history fetch's
\* exception, another in the InvalidDate refusal
C25_Witness ==
    \E r1, r2 \in Reqs :
        /\ req[r1].pc = "done"
        /\ req[r1].response =
             HttpError(500, <<"Prediction failed", "get_user_historical_data">>)
        /\ req[r2].pc = "done"
        /\ req[r2].response = HttpError(400, <<"InvalidDate">>)

\* C26: predict_next_day consults the cache only after the date check, the
\* history fetch with its row check and the weather fetch, in that order: the
\* steps of the date check and of the history check leave the cache as it is
\* (an expired entry under the request's key is not even dropped) and never
\* answer 200, whatever the cache holds; the weather fetch is entered only
\* from the history check, and only the step after the weather fetch answers
\* from the cache or goes on to training.
C26_CacheAfterFetches ==
    [][\A r \in Reqs :
        req'[r] # req[r]
        => /\ req[r].pc \in {"idle", "done"}
                => /\ cache' = cache
                   /\ req'[r].pc \in {"history", "done"}
                   /\ req'[r].pc = "done" => req'[r].response.status # 200
           /\ req[r].pc = "history"
                => /\ cache' = cache
                   /\ req'[r].pc \in {"weather", "done"}
                   /\ req'[r].pc = "done" => req'[r].response.status # 200
           /\ req'[r].pc = "weather" => req[r].pc = "history"
           /\ req'[r].pc = "train" => req[r].pc = "weather"
           /\ (/\ req[r].pc = "weather"
               /\ KeyOf(req[r]) \in DOMAIN cache
               /\ now < cache[KeyOf(req[r])].expires_at)
                => req'[r].response = Ok(cache[KeyOf(req[r])].value)]_vars

\* C26 witness: a request whose key has an unexpired cached result has passed
\* the date check and the history check and is awaiting the weather fetch
C26_Witness ==
    \E r \in Reqs :
        /\ req[r].pc = "weather"
        /\ KeyOf(req[r]) \in DOMAIN cache
        /\ now < cache[KeyOf(req[r])].expires_at

\* C21 as claimed: a forecast requested for a date more than 14 days out in
\* December, January or February comes back (no exception) with a temp_max
\* within 5 degrees of 10, whether the weather service is configured or not.
C21_WinterFallback ==
    (/\ ret.op = "get_weather_forecast"
     /\ args.days_ahead > 14
     /\ args.month \in {12, 1, 2})
    => /\ ~IsRaised(ret.value)
       /\ ret.value.temp_max - 10 \in -5..5

\* C22: for a full window of 7 observations calculate_trend gives a positive
\* slope when the values strictly increase, a negative slope when they
\* strictly decrease, and 0 when they are all equal.
C22_TrendSign ==
    ret.op = "calculate_trend"
    => LET x == args.series
           slope == ret.value[7]
       IN  /\ slope.t = "num"
           /\ (\A i \in 1..6 : x[i].n < x[i + 1].n) => slope.n > 0
           /\ (\A i \in 1..6 : x[i].n > x[i + 1].n) => slope.n < 0
           /\ (\A i \in 1..6 : x[i].n = x[i + 1].n) => slope = Num(0)

\* C22 witness: calculate_trend returned a positive slope for a strictly
\* increasing window with unequal steps
C22_Witness ==
    /\ ret.op = "calculate_trend"
    /\ \A i \in 1..6 : args.series[i].n < args.series[i + 1].n
    /\ \E i \in 1..5 :
          args.series[i + 1].n - args.series[i].n
            # args.series[i + 2].n - args.series[i + 1].n
    /\ ret.value[7].n > 0

\* C29 as claimed: in the table returned by create_features, the trend_7d
\* and trend_14d of a row whose trailing window holds fewer than 2
\* observations is 0.
C29_ShortWindowTrendZero ==
    ret.op = "create_features"
    => \A col \in {"visitor_count", "sales_amount"} :
         \A w \in {7, 14} :
           \A i \in 1..Len(args.df["date"]) :
             Len(Valid(Window(SortValues(args.df)[col], i, w))) < 2
             => ret.value[col \o "_trend_" \o (IF w = 7 THEN "7d" ELSE "14d")][i]
                  = Num(0)

\* C27: on a miss, the row train_and_predict hands to predict holds every
\* column of the pinned schema, and each rolling-mean, lag and trend column
\* of the schema holds the value the last row of the feature table has in
\* the column of that name.
C27_PredictionRowCarriesLastRow ==
    (ret.op = "train_and_predict" /\ ret.printed.X_pred # None) =>
        LET X_pred == ret.printed.X_pred
            last_row == ret.printed.last_row
            pinned == ColumnsAfter(HistoryColumns)
        IN  /\ ToSet(FeatureCols([columns |-> pinned],
                                 "visitor_count", "sales_amount"))
                   \subseteq {X_pred.cells[i].col : i \in DOMAIN X_pred.cells}
            /\ \A i \in DOMAIN X_pred.cells :
                   (\E pattern \in {"_ma", "_lag", "_trend"} :
                        Contains(X_pred.cells[i].col, pattern))
                   => X_pred.cells[i].v = last_row[X_pred.cells[i].col]

\* C30: on the miss path a history that passed the 30-row check never makes
\* train fail for too few clean rows: the feature table has as many rows as
\* the history and no missing value, so all of them are clean.
C30_TrainNeverInsufficient ==
    /\ ret.op = "create_features" =>
           LET df == AsTable(ret.value, ColumnsAfter(HistoryColumns))
               df_clean == DropNa(df, ToSet(df.columns))
           IN  /\ Len(df.rows) = Len(args.historical_data["date"])
               /\ Len(df_clean) = Len(df.rows)
               /\ ~TooFewCleanRows(df_clean)
    /\ ret.op = "train_and_predict" =>
           /\ ~(IsRaised(ret.value) /\ ret.value.exc = "ValueError")
           /\ ~IsRaised(ret.value) =>
                  LET n == Len(args.historical_data["date"])
                  IN  ret.value.model_metrics.training_samples
                          = n - ((n + TestSizeInv - 1) \div TestSizeInv)

\* A history of zeros with missing avg_per_customer cells was trained on and
\* a result returned
C30_Witness ==
    /\ ret.op = "train_and_predict"
    /\ ~IsRaised(ret.value)
    /\ NaN \in ToSet(args.historical_data["avg_per_customer"])
    /\ \A i \in DOMAIN args.historical_data["visitor_count"] :
           args.historical_data["visitor_count"][i] = Num(0)
    /\ ret.value.model_metrics.training_samples >= MinCleanRows - 6

============================================================================
